---- MODULE Spec2Model ----
(***************************************************************************)
(* Model of the Gemini Multimedia Studio: the serverless relay             *)
(* (api/proxy.ts), the client workflow engine (geminiService.ts, in its    *)
(* server-held-key and client-supplied-key snapshots) and the App          *)
(* component's credential handling.                                        *)
(*                                                                         *)
(* JavaScript values are modelled as follows.  A string is a sequence of   *)
(* tokens, so that template-string concatenation is sequence               *)
(* concatenation and the empty string is the empty sequence.  An optional  *)
(* value (a field that may be absent or undefined) is a sequence of        *)
(* length 0 or 1.  JSON.stringify drops undefined fields and reading an    *)
(* absent field yields undefined, so absent and undefined coincide.        *)
(***************************************************************************)
EXTENDS Integers, Sequences, FiniteSets, TLC

VARIABLES
    client,      \* which geminiService snapshot the browser runs
    relay,       \* which relay handler the deployment runs
    envKey,      \* the relay environment's credential (optional string)
    op,          \* the engine operation in progress and its arguments
    pc,          \* position of the operation: idle, sent, answered, waiting, done
    req,         \* the HTTP request in flight to the relay
    resp,        \* the HTTP response in flight to the client
    handle,      \* generateVideoWithVeo's local variable `operation`
    timer,       \* delay of the pending setTimeout, 0 when none
    result,      \* how the operation ended: returned value or thrown message
    job,         \* the remote service's video job
    nRelayCalls, \* relay calls made by the operation in progress
    nStatus,     \* getVideosOperation queries made by the operation
    nWaits,      \* timers started by the operation
    statusLog,   \* done flags of the status responses received
    failedCall,  \* some relay call of the operation failed
    remoteCall,  \* the remote call the relay made for the request in req
    accepted,    \* the credentials the remote service accepts at present
    app,         \* which App snapshot the page runs
    apiKeyS,     \* App state apiKey
    isKeyValid,  \* App state isKeyValid: "null", "true" or "false"
    isKeyChecking, \* App state isKeyChecking
    storage,     \* localStorage item 'gemini-api-key' (optional string)
    pending,     \* handleApiKeySubmit calls suspended at await validateApiKey
    mounted,     \* the page has loaded
    tool,        \* ImageEditor: isLoading, the apiKey of its closure, error
    lastEvent,   \* the last handler that ran to its end or to its await
    isApiReady,  \* App state isApiReady: "null", "true" or "false"
    activeTool,  \* App state activeTool
    videoGen,    \* state of the mounted VideoGenerator
    studio,      \* state of the mounted ImageStudio
    runs,        \* the handler runs suspended at an await, oldest first
    lastOutcome, \* how the mounted tool component's last settled call ended
    invs,        \* the locals of two generateVideoWithVeo invocations run at once
    jobs,        \* the remote service's video jobs when it keeps several
    inputValue,  \* ApiKeyInput state inputValue
    debounce,    \* delay of ApiKeyInput's pending setTimeout, 0 when none
    nDebounced   \* validations the debounce started since the user's last act

engineVars == <<client, relay, envKey, op, pc, req, resp, handle, timer,
                result, job, nRelayCalls, nStatus, nWaits, statusLog,
                failedCall, remoteCall>>

appVars == <<accepted, app, apiKeyS, isKeyValid, isKeyChecking, storage, pending,
             mounted, tool, lastEvent>>

uiVars == <<isApiReady, activeTool, videoGen, studio, runs, lastOutcome>>

pairVars == <<invs, jobs>>

keyVars == <<inputValue, debounce, nDebounced>>

vars == <<engineVars, appVars, uiVars, pairVars, keyVars>>

----------------------------------------------------------------------------
(* Bounds of the model.                                                    *)

\* Counters of relay calls, status queries and waits saturate here.
MaxCount == 4

\* At most this many handleApiKeySubmit calls are suspended at a time.
MaxPending == 2

\* Handler runs of the page suspended at one time.
MaxRuns == 2

\* Images selected in ImageStudio at one time.
MaxFiles == 2

\* Validations the debounce may start after one act of the user.
MaxDebounced == 3

----------------------------------------------------------------------------
(* JavaScript values.                                                      *)

Undef == <<>>

Some(v) == <<v>>

IsDef(o) == o # Undef

Val(o) == o[1]

EmptyStr == <<>>

\* Truthiness of an optional string: undefined and "" are falsy.
StrTruthy(o) == IsDef(o) /\ Val(o) # EmptyStr

\* Truthiness of an optional one-token string (an endpoint name).
TokTruthy(o) == IsDef(o) /\ Val(o) # ""

\* Reading a field of a parsed JSON object; an absent field is undefined.
Get(obj, f) == IF f \in DOMAIN obj THEN obj[f] ELSE Undef

\* a || b on optional strings.
OrElse(o, fallback) == IF StrTruthy(o) THEN Val(o) ELSE fallback

\* String.prototype.includes for a needle that is one token.
Includes(s, tok) == \E i \in DOMAIN s : s[i] = tok

Sat(n) == IF n < MaxCount THEN n + 1 ELSE MaxCount

----------------------------------------------------------------------------
(* Credentials and the remote generative service.                          *)

KeyGood == <<"k1">>

KeyBad == <<"k2">>

Keys == {KeyGood, KeyBad}

\* The credentials the remote service accepts.
ValidKeys == accepted

JobNames == {"opA", "opB"}

UriX == <<"X">>

MsgAuth == <<"API key", "not valid">>

MsgQuota == <<"quota", "exceeded">>

\* Shapes of a finished job's `response`, down to video.uri.
VideoShapes ==
    { Undef,
      Some([generatedVideos |-> Undef]),
      Some([generatedVideos |-> Some(<<>>)]),
      Some([generatedVideos |-> Some(<<[video |-> Undef]>>)]),
      Some([generatedVideos |-> Some(<<[video |-> Some([uri |-> Undef])]>>)]),
      Some([generatedVideos |-> Some(<<[video |-> Some([uri |-> Some(EmptyStr)])]>>)]),
      Some([generatedVideos |-> Some(<<[video |-> Some([uri |-> Some(UriX)])]>>)]) }

NoJob == [name |-> "none", done |-> FALSE, response |-> Undef]

\* The operation object the remote service reports for a job.
OperationOf(j) == [name |-> Some(j.name), done |-> j.done, response |-> j.response]

ImageLists ==
    { Undef, Some(<<>>) }
    \cup { Some(<<[image |-> [imageBytes |-> "b1", mimeType |-> mt]]>>) :
              mt \in {"image/png", "image/jpeg"} }

PartSet ==
    { [text |-> Some(<<"t1">>), inlineData |-> Undef],
      [text |-> Some(EmptyStr), inlineData |-> Some([mimeType |-> "image/jpeg", data |-> "d2"])],
      [text |-> Undef, inlineData |-> Some([mimeType |-> "image/png", data |-> "d1"])],
      [text |-> Undef, inlineData |-> Undef] }

\* Responses that interleave several text parts and image parts.
InterleavedLists ==
    LET t1 == [text |-> Some(<<"t1">>), inlineData |-> Undef]
        t2 == [text |-> Some(<<"t2">>), inlineData |-> Undef]
        i1 == [text |-> Undef, inlineData |-> Some([mimeType |-> "image/png", data |-> "d1"])]
        i2 == [text |-> Undef, inlineData |-> Some([mimeType |-> "image/jpeg", data |-> "d2"])]
    IN  { <<t1, i1, t2, i2>>, <<i1, i2, t1>>, <<t1, t2, i1>> }

PartLists ==
    { <<>> } \cup { <<p>> : p \in PartSet } \cup { <<p, q>> : p \in PartSet, q \in PartSet }
    \cup InterleavedLists

CandidateLists ==
    { Undef, Some(<<>>) } \cup { Some(<<[content |-> [parts |-> ps]]>>) : ps \in PartLists }

Threw(msg) == [threw |-> TRUE, message |-> msg, value |-> <<>>, job |-> NoJob]

Gave(v, j) == [threw |-> FALSE, message |-> Undef, value |-> v, job |-> j]

\* An error the remote service may raise on any call: a rejected
\* credential, or a failure unrelated to the credential (with or without
\* a message).
RemoteErrors(key) ==
    IF key \in ValidKeys
    THEN { Threw(Some(MsgQuota)), Threw(Undef) }
    ELSE { Threw(Some(MsgAuth)) }

\* What the remote service can answer to a call made with `key` and the
\* SDK argument `arg`.  The answer to generateVideos opens a job under a
\* name of the service's choosing; the answer to a status query reports the
\* job that the argument's operation names.
RemoteOutcomes(endpoint, key, arg) ==
    RemoteErrors(key) \cup
    IF key \notin ValidKeys THEN {}
    ELSE CASE endpoint = "validate" ->
                { Gave([text |-> t], job) : t \in {Undef, Some(<<"Hello">>)} }
           [] endpoint = "generateImages" ->
                { Gave([generatedImages |-> g], job) : g \in ImageLists }
           [] endpoint = "generateContent" ->
                { Gave([candidates |-> c], job) : c \in CandidateLists }
           [] endpoint = "generateVideos" ->
                { Gave(OperationOf(j), j) :
                    j \in { [name |-> n, done |-> FALSE, response |-> Undef] : n \in JobNames }
                          \cup { [name |-> n, done |-> TRUE, response |-> v] :
                                    n \in JobNames, v \in VideoShapes } }
           [] endpoint = "getVideosOperation" ->
                LET named == IF IsDef(Get(arg, "operation"))
                             THEN Get(Val(Get(arg, "operation")), "name")
                             ELSE Undef
                IN  IF IsDef(named) /\ Val(named) = job.name
                    THEN { Gave(OperationOf(job), job) }
                    ELSE { Threw(Some(<<"operation", "not found">>)) }
           [] OTHER -> {}

NoCall == Threw(Undef)

\* The relay handled a request without calling the remote service.
NoRemoteCall ==
    [made |-> FALSE, endpoint |-> "", key |-> EmptyStr, arg |-> <<>>, out |-> NoCall]

\* The relay's call of the remote service and its outcome.
RemoteCall(endpoint, key, arg, out) ==
    [made |-> TRUE, endpoint |-> endpoint, key |-> key, arg |-> arg, out |-> out]

----------------------------------------------------------------------------
(* The relay.                                                              *)

Endpoints == {"validate", "generateImages", "generateContent", "generateVideos",
              "getVideosOperation"}

Response(status, body) == [status |-> status, json |-> Some(body), delivered |-> TRUE]

MsgMethodNotAllowed == <<"Method not allowed">>

MsgMissingParams == <<"Missing required parameters: apiKey, endpoint, payload">>

MsgUnknownEndpoint(e) == <<"Unknown endpoint: ", e>>

MsgInternal == <<"An internal server error occurred while contacting the Gemini API via the proxy.">>

MsgBodyParse == <<"Unexpected token in JSON">>

\* Mutant: validate answers with the probe's raw result.
HandlerValue_Raw(endpoint, out) == out.value

\* The value the handler's switch sends back for a successful remote call.
HandlerValue(endpoint, out) ==
    IF endpoint = "validate"
    THEN [success |-> TRUE, text |-> out.value.text]
    ELSE out.value

\* Mutant: the catch block always answers with the generic message.
HandlerCatch_Generic(message) == Response(500, [error |-> Some(MsgInternal)])

\* The catch block: the remote service's own message when it has one.
HandlerCatch(message) == Response(500, [error |-> Some(OrElse(message, MsgInternal))])

\* Mutant: the remote call is made whatever the verb.
HandlerCallsRemote_AnyVerb(r) ==
    /\ IsDef(r.json)
    /\ StrTruthy(Get(Val(r.json), "apiKey"))
    /\ TokTruthy(Get(Val(r.json), "endpoint"))
    /\ IsDef(Get(Val(r.json), "payload"))
    /\ Val(Get(Val(r.json), "endpoint")) \in Endpoints

\* Mutant: the remote call is made before the endpoint is looked at.
HandlerCallsRemote_AnyEndpoint(r) ==
    /\ r.method = "POST"
    /\ IsDef(r.json)
    /\ StrTruthy(Get(Val(r.json), "apiKey"))
    /\ TokTruthy(Get(Val(r.json), "endpoint"))
    /\ IsDef(Get(Val(r.json), "payload"))

\* Whether the handler reaches a remote call for this request.
HandlerCallsRemote(r) ==
    /\ r.method = "POST"
    /\ IsDef(r.json)
    /\ StrTruthy(Get(Val(r.json), "apiKey"))
    /\ TokTruthy(Get(Val(r.json), "endpoint"))
    /\ IsDef(Get(Val(r.json), "payload"))
    /\ Val(Get(Val(r.json), "endpoint")) \in Endpoints

\* The key the handler hands to the remote service.
HandlerKey(r) == Val(Get(Val(r.json), "apiKey"))

\* Mutant: the parameter check does not ask for apiKey.
Handler_KeyOptional(r, out) ==
    IF r.method # "POST" THEN Response(405, [error |-> Some(MsgMethodNotAllowed)])
    ELSE IF ~IsDef(r.json) THEN HandlerCatch(Some(MsgBodyParse))
    ELSE LET body     == Val(r.json)
             endpoint == Get(body, "endpoint")
             payload  == Get(body, "payload")
         IN  IF ~TokTruthy(endpoint) \/ ~IsDef(payload)
             THEN Response(400, [error |-> Some(MsgMissingParams)])
             ELSE IF Val(endpoint) \in Endpoints
                  THEN IF out.threw
                       THEN HandlerCatch(out.message)
                       ELSE Response(200, HandlerValue(Val(endpoint), out))
                  ELSE Response(400, [error |-> Some(MsgUnknownEndpoint(Val(endpoint)))])

\* api/proxy.ts handler: `out` is the outcome of the remote call, read only
\* when the handler makes one.
Handler(r, out) ==
    IF r.method # "POST" THEN Response(405, [error |-> Some(MsgMethodNotAllowed)])
    ELSE IF ~IsDef(r.json) THEN HandlerCatch(Some(MsgBodyParse))
    ELSE LET body     == Val(r.json)
             apiKey   == Get(body, "apiKey")
             endpoint == Get(body, "endpoint")
             payload  == Get(body, "payload")
         IN  IF ~StrTruthy(apiKey) \/ ~TokTruthy(endpoint) \/ ~IsDef(payload)
             THEN Response(400, [error |-> Some(MsgMissingParams)])
             ELSE IF Val(endpoint) \in Endpoints
                  THEN IF out.threw
                       THEN HandlerCatch(out.message)
                       ELSE Response(200, HandlerValue(Val(endpoint), out))
                  ELSE Response(400, [error |-> Some(MsgUnknownEndpoint(Val(endpoint)))])

----------------------------------------------------------------------------
(* The relay of the server-held-credential deployment.  Its handler is not *)
(* among the sources; it is modelled from the specification's section 4.1. *)

MsgUnconfigured == <<"API key is not configured on the server">>

MsgMissingEndpoint == <<"Missing required parameters: endpoint, payload">>

MsgMissingOperationName == <<"Missing operationName">>

\* operation.response?.generatedVideos?.[0]?.video?.uri
DownloadLink(o) ==
    LET r == Get(o, "response")
    IN  IF ~IsDef(r) THEN Undef
        ELSE LET gv == Get(Val(r), "generatedVideos")
             IN  IF ~IsDef(gv) THEN Undef
                 ELSE IF Len(Val(gv)) = 0 THEN Undef
                 ELSE LET v == Get(Val(gv)[1], "video")
                      IN  IF ~IsDef(v) THEN Undef ELSE Get(Val(v), "uri")

\* `${uri}&key=${key}`
WithKey(uri, key) == uri \o <<"&key=">> \o key

\* A done status carrying a media URI leaves with the credential appended
\* to that URI.
SignOperation(o, key) ==
    IF o.done /\ StrTruthy(DownloadLink(o))
    THEN [o EXCEPT !.response =
            Some([generatedVideos |->
                    Some(<<[video |-> Some([uri |-> Some(WithKey(Val(DownloadLink(o)), key))])]>>
                         \o Tail(Val(Val(o.response).generatedVideos)))])]
    ELSE o

EnvWellFormed(r) ==
    /\ IsDef(r.json)
    /\ TokTruthy(Get(Val(r.json), "endpoint"))
    /\ IsDef(Get(Val(r.json), "payload"))
    /\ Val(Get(Val(r.json), "endpoint")) \in Endpoints

EnvCallsRemote(r) ==
    /\ r.method = "POST"
    /\ EnvWellFormed(r)
    /\ StrTruthy(envKey)
    /\ (Val(Get(Val(r.json), "endpoint")) = "getVideosOperation"
          => IsDef(Get(Val(Get(Val(r.json), "payload")), "operationName")))

EnvRespond(r, out, key) ==
    IF r.method # "POST" THEN Response(405, [error |-> Some(MsgMethodNotAllowed)])
    ELSE IF ~IsDef(r.json) \/ ~TokTruthy(Get(Val(r.json), "endpoint"))
            \/ ~IsDef(Get(Val(r.json), "payload"))
    THEN Response(400, [error |-> Some(MsgMissingEndpoint)])
    ELSE LET endpoint == Val(Get(Val(r.json), "endpoint"))
             payload  == Val(Get(Val(r.json), "payload"))
         IN  IF endpoint \notin Endpoints
             THEN Response(400, [error |-> Some(MsgUnknownEndpoint(endpoint))])
             ELSE IF ~StrTruthy(key)
             THEN Response(500, [error |-> Some(MsgUnconfigured)])
             ELSE IF endpoint = "getVideosOperation" /\ ~IsDef(Get(payload, "operationName"))
             THEN Response(400, [error |-> Some(MsgMissingOperationName)])
             ELSE IF out.threw THEN HandlerCatch(out.message)
             ELSE IF endpoint = "getVideosOperation"
             THEN Response(200, SignOperation(out.value, Val(key)))
             ELSE Response(200, HandlerValue(endpoint, out))

\* Mutant: a relay that falls back on a built-in key.
EnvHandler_DefaultKey(r, out) ==
    EnvRespond(r, out, IF StrTruthy(envKey) THEN envKey ELSE Some(<<"k0">>))

\* The handler with the credential of its environment.
EnvHandler(r, out) == EnvRespond(r, out, envKey)

----------------------------------------------------------------------------
(* The deployment's relay, whichever handler it runs.                      *)

RelayCallsRemote(r) == IF relay = "src" THEN HandlerCallsRemote(r) ELSE EnvCallsRemote(r)

RelayKey(r) == IF relay = "src" THEN HandlerKey(r) ELSE Val(envKey)

\* The probe of case 'validate': a fixed minimal generateContent request.
ProbeRequest ==
    [model |-> "gemini-2.5-flash", contents |-> <<"Hi">>,
     config |-> [thinkingConfig |-> [thinkingBudget |-> 0]]]

\* Mutant: a relay that passes the payload of a status query on in both
\* deployments.
RelayArg_Verbatim(r) ==
    IF Val(Get(Val(r.json), "endpoint")) = "validate"
    THEN ProbeRequest
    ELSE Val(Get(Val(r.json), "payload"))

\* The argument of the remote call: the fixed probe for validate; otherwise
\* the src handler passes the payload on, and the server-held relay builds
\* its status query from operationName.
RelayArg(r) ==
    LET endpoint == Val(Get(Val(r.json), "endpoint"))
        payload  == Val(Get(Val(r.json), "payload"))
    IN  IF endpoint = "validate"
        THEN ProbeRequest
        ELSE IF relay = "env" /\ endpoint = "getVideosOperation"
        THEN [operation |-> Some([name |-> Get(payload, "operationName")])]
        ELSE payload

RelayRespond(r, out) == IF relay = "src" THEN Handler(r, out) ELSE EnvHandler(r, out)

----------------------------------------------------------------------------
(* The client workflow engine (geminiService.ts).                          *)

\* The delay of the polling loop's setTimeout, in milliseconds.
PollDelayMs == 10000

MsgFetch == <<"Failed to fetch">>

MsgNotJson == <<"Unexpected token < in JSON">>

MsgProxyUnexpected == <<"An unexpected error occurred via the proxy.">>

MsgNoImages == <<"The model did not return any images. Please try a different prompt.">>

MsgNoContent == <<"The model did not return any content. Please try a different prompt or image.">>

MsgNoLink == <<"Video generation completed, but no download link was found.">>

Request(body) == [method |-> "POST", json |-> Some(body)]

NoReq == [method |-> "none", json |-> Undef]

NoResp == [status |-> 0, json |-> Undef, delivered |-> FALSE]

\* Response.ok
Ok(rsp) == rsp.status >= 200 /\ rsp.status <= 299

Thrown(msg) == [kind |-> "threw", value |-> <<>>, message |-> msg]

Returned(v) == [kind |-> "returned", value |-> v, message |-> EmptyStr]

\* A returned boolean. The type field keeps it apart from a returned string
\* or list, as typeof does: the values are never compared across types.
ReturnedBoolean(b) ==
    [kind |-> "returned", value |-> b, message |-> EmptyStr, type |-> "boolean"]

NoResult == [kind |-> "none", value |-> <<>>, message |-> EmptyStr]

\* Mutant: the server-held-key client posts a key of its own.
CallProxyBodyServer_Leaks(endpoint, payload) ==
    [apiKey |-> Some(<<"k1">>), endpoint |-> Some(endpoint), payload |-> Some(payload)]

\* The body callProxy posts in the server-held-key client.
CallProxyBodyServer(endpoint, payload) ==
    [endpoint |-> Some(endpoint), payload |-> Some(payload)]

\* The body callProxy posts in the client-supplied-key client.
CallProxyBodyKeyed(apiKey, endpoint, payload) ==
    [apiKey |-> Some(apiKey), endpoint |-> Some(endpoint), payload |-> Some(payload)]

\* Mutant: the response's status is not checked.
CallProxyServer_NoOkCheck(rsp) ==
    IF ~rsp.delivered THEN Thrown(MsgFetch)
    ELSE IF ~IsDef(rsp.json) THEN Thrown(MsgNotJson)
    ELSE Returned(Val(rsp.json))

\* callProxy of the server-held-key client, from the fetch's outcome on.
CallProxyServer(rsp) ==
    IF ~rsp.delivered THEN Thrown(MsgFetch)
    ELSE IF ~IsDef(rsp.json) THEN Thrown(MsgNotJson)
    ELSE IF ~Ok(rsp)
         THEN Thrown(OrElse(Get(Val(rsp.json), "error"), MsgProxyUnexpected))
         ELSE Returned(Val(rsp.json))

\* handleProxyError with context `calling endpoint ${endpoint}`.
HandleProxyError(rsp, endpoint) ==
    IF ~IsDef(rsp.json)
    THEN Thrown(<<"Failed to ", "calling endpoint ", endpoint, " with status ",
                  ToString(rsp.status), ". Could not parse error response.">>)
    ELSE Thrown(OrElse(Get(Val(rsp.json), "error"),
                       <<"An unknown error occurred while ", "calling endpoint ", endpoint>>))

\* callProxy of the client-supplied-key client, from the fetch's outcome on.
CallProxyKeyed(rsp, endpoint) ==
    IF ~rsp.delivered THEN Thrown(MsgFetch)
    ELSE IF ~Ok(rsp) THEN HandleProxyError(rsp, endpoint)
    ELSE IF ~IsDef(rsp.json) THEN Thrown(MsgNotJson)
    ELSE Returned(Val(rsp.json))

CallProxy(rsp, endpoint) ==
    IF client = "server" THEN CallProxyServer(rsp) ELSE CallProxyKeyed(rsp, endpoint)

\* checkApiReadiness / validateApiKey after the await: the try/catch.
ReadinessResult(cp) == ReturnedBoolean(cp.kind = "returned")

\* Mutant: the data URI is labelled with the mime type of the response's
\* image.
ImagesResult_ResponseMime(cp) ==
    IF cp.kind = "threw" THEN cp
    ELSE LET g == Get(cp.value, "generatedImages")
         IN  IF ~IsDef(g) \/ Len(Val(g)) = 0
             THEN Thrown(MsgNoImages)
             ELSE Returned([i \in DOMAIN Val(g) |->
                              <<"data:", Val(g)[i].image.mimeType, ";base64,",
                                Val(g)[i].image.imageBytes>>])

\* generateImageWithImagen after the await.
ImagesResult(cp) ==
    IF cp.kind = "threw" THEN cp
    ELSE LET g == Get(cp.value, "generatedImages")
         IN  IF ~IsDef(g) \/ Len(Val(g)) = 0
             THEN Thrown(MsgNoImages)
             ELSE Returned([i \in DOMAIN Val(g) |->
                              <<"data:", "image/png", ";base64,", Val(g)[i].image.imageBytes>>])

\* The body of the loop over response.candidates[0].content.parts.
MapPart(part) ==
    IF StrTruthy(part.text)
    THEN <<[type |-> "text", content |-> Val(part.text)]>>
    ELSE IF IsDef(part.inlineData)
         THEN <<[type |-> "image",
                 content |-> <<"data:", Val(part.inlineData).mimeType, ";base64,",
                               Val(part.inlineData).data>>]>>
         ELSE <<>>

\* Mutant: the results are collected in reverse.
RECURSIVE MapParts_Reversed(_)
MapParts_Reversed(parts) ==
    IF parts = <<>> THEN <<>> ELSE MapParts_Reversed(Tail(parts)) \o MapPart(Head(parts))

RECURSIVE MapParts(_)
MapParts(parts) ==
    IF parts = <<>> THEN <<>> ELSE MapPart(Head(parts)) \o MapParts(Tail(parts))

\* Mutant: an empty result list is returned as a success.
EditResult_AllowsEmpty(cp) ==
    IF cp.kind = "threw" THEN cp
    ELSE LET c == Get(cp.value, "candidates")
         IN  Returned(IF IsDef(c) /\ Len(Val(c)) > 0
                      THEN MapParts(Val(c)[1].content.parts)
                      ELSE <<>>)

\* editImageWithNanoBanana after the await.
EditResult(cp) ==
    IF cp.kind = "threw" THEN cp
    ELSE LET c == Get(cp.value, "candidates")
             results == IF IsDef(c) /\ Len(Val(c)) > 0
                        THEN MapParts(Val(c)[1].content.parts)
                        ELSE <<>>
         IN  IF Len(results) = 0 THEN Thrown(MsgNoContent) ELSE Returned(results)

\* generateParams of generateVideoWithVeo.
GenerateParams(seeded) ==
    IF seeded
    THEN [model |-> "veo", prompt |-> <<"p">>, config |-> [numberOfVideos |-> 1],
          image |-> [imageBytes |-> "seed", mimeType |-> "image/png"]]
    ELSE [model |-> "veo", prompt |-> <<"p">>, config |-> [numberOfVideos |-> 1]]

ImagePayload ==
    [model |-> "imagen-4.0-generate-001", prompt |-> <<"p">>,
     config |-> [numberOfImages |-> 1, outputMimeType |-> "image/png"]]

EditPayload ==
    [model |-> "gemini-2.5-flash-image-preview",
     contents |-> [parts |-> <<[inlineData |-> [data |-> "img", mimeType |-> "image/png"]],
                               [text |-> <<"p">>]>>],
     config |-> [responseModalities |-> <<"IMAGE", "TEXT">>]]

\* The payload of a validate call: {}.
EmptyObject == [f \in {} |-> Undef]

\* Mutant: the loop never looks at the done flag.
LoopContinues_Always(o) == TRUE

\* Mutant: the loop gives up after two status queries.
LoopContinues_Capped(o) == ~o.done /\ nStatus < 2

\* Mutant: the loop makes one status query even for a handle that is done.
LoopContinues_QueriesDone(o) == ~o.done \/ nStatus < 1

\* The polling loop's condition: while (!operation.done).
LoopContinues(o) == ~o.done

\* The payload of the status query for the held handle.
StatusPayloadServer(o) == [operationName |-> Get(o, "name")]

StatusPayloadKeyed(o) == [operation |-> Some(o)]

StatusPayload(o) ==
    IF client = "server" THEN StatusPayloadServer(o) ELSE StatusPayloadKeyed(o)

\* Mutant: the link is returned without the check for its absence.
VideoResultServer_Unchecked(o) == Returned(OrElse(DownloadLink(o), EmptyStr))

\* Mutant: the client-supplied key is not appended.
VideoResultKeyed_NoKey(o, apiKey) ==
    IF ~StrTruthy(DownloadLink(o)) THEN Thrown(MsgNoLink)
    ELSE Returned(Val(DownloadLink(o)))

\* Mutant: the server-held-key client appends a key of its own.
VideoResultServer_AppendsAgain(o) ==
    IF ~StrTruthy(DownloadLink(o)) THEN Thrown(MsgNoLink)
    ELSE Returned(WithKey(Val(DownloadLink(o)), <<"k1">>))

\* generateVideoWithVeo once the loop has ended, server-held-key client.
VideoResultServer(o) ==
    IF ~StrTruthy(DownloadLink(o)) THEN Thrown(MsgNoLink)
    ELSE Returned(Val(DownloadLink(o)))

\* generateVideoWithVeo once the loop has ended, client-supplied-key client.
VideoResultKeyed(o, apiKey) ==
    IF ~StrTruthy(DownloadLink(o)) THEN Thrown(MsgNoLink)
    ELSE Returned(WithKey(Val(DownloadLink(o)), apiKey))

VideoResult(o, apiKey) ==
    IF client = "server" THEN VideoResultServer(o) ELSE VideoResultKeyed(o, apiKey)

----------------------------------------------------------------------------
(* The engine's state machine: one operation at a time.                    *)

\* The deployments: the client-supplied-key client with the src relay, the
\* server-held-key client with the server-held relay, and the
\* server-held-key client with the src relay.
Deployments == { <<"keyed", "src">>, <<"server", "env">>, <<"server", "src">> }

\* The key argument of an engine call: none in the server-held-key client.
KeyArgs == IF client = "server" THEN {EmptyStr} ELSE {EmptyStr} \cup Keys

\* ImageEditor before any submit.
NoTool == [busy |-> FALSE, key |-> EmptyStr, error |-> Undef]

NoEvent ==
    [kind |-> "none", key |-> EmptyStr, valid |-> FALSE, initial |-> FALSE,
     cause |-> "none", keyAccepted |-> FALSE, before |-> <<EmptyStr, Undef>>]

\* No page is loaded.
AppAtRest ==
    /\ apiKeyS = EmptyStr
    /\ isKeyValid = "null"
    /\ isKeyChecking = FALSE
    /\ pending = {}
    /\ mounted = FALSE
    /\ tool = NoTool
    /\ lastEvent = NoEvent

\* VideoGenerator as it mounts.
NoVideoGen == [prompt |-> <<"p">>, isLoading |-> FALSE, error |-> Undef, resultUri |-> Undef]

\* ImageStudio as it mounts.
NoStudio ==
    [mode |-> "GENERATE", prompt |-> <<"p">>, imageFiles |-> <<>>, isLoading |-> FALSE,
     processingStatus |-> Undef, error |-> Undef, generatedImages |-> <<>>,
     editResults |-> <<>>]

\* The server-readiness page is not loaded.
UiAtRest ==
    /\ isApiReady = "null"
    /\ activeTool = "IMAGE_STUDIO"
    /\ videoGen = NoVideoGen
    /\ studio = NoStudio
    /\ runs = <<>>
    /\ lastOutcome = "none"

\* The invocations run at once.
Callers == {1, 2}

\* An invocation that has not been called: its locals.
NoInv ==
    [pc |-> "idle", apiKey |-> EmptyStr, req |-> NoReq, resp |-> NoResp,
     operation |-> Undef, result |-> NoResult]

\* The remote service has no job; `by` records whose submit opened a job.
NoJobs ==
    [n \in JobNames |-> [open |-> FALSE, done |-> FALSE, response |-> Undef, by |-> 0]]

PairAtRest ==
    /\ invs = [i \in Callers |-> NoInv]
    /\ jobs = NoJobs

\* ApiKeyInput is not rendered.
KeyAtRest ==
    /\ inputValue = EmptyStr
    /\ debounce = 0
    /\ nDebounced = 0

\* No engine call has been made.
EngineAtRest ==
    /\ op = [kind |-> "none", apiKey |-> EmptyStr, seeded |-> FALSE]
    /\ pc = "idle"
    /\ req = NoReq
    /\ resp = NoResp
    /\ handle = Undef
    /\ timer = 0
    /\ result = NoResult
    /\ job = NoJob
    /\ nRelayCalls = 0
    /\ nStatus = 0
    /\ nWaits = 0
    /\ statusLog = <<>>
    /\ failedCall = FALSE
    /\ remoteCall = NoRemoteCall

Init ==
    /\ \E d \in Deployments : client = d[1] /\ relay = d[2]
    /\ envKey \in (IF relay = "env" THEN {Undef, Some(KeyGood), Some(KeyBad)} ELSE {Undef})
    /\ accepted = {KeyGood}
    /\ app = "none"
    /\ storage = Undef
    /\ AppAtRest
    /\ EngineAtRest
    /\ UiAtRest
    /\ PairAtRest
    /\ KeyAtRest

\* What no engine step changes: the deployment, and the App's state.
config == <<client, relay, envKey, appVars, uiVars, pairVars, keyVars>>

\* A call of an engine function: its locals start afresh.
Begin(kind, k, seeded) ==
    /\ pc \in {"idle", "done"}
    /\ k \in KeyArgs
    /\ op' = [kind |-> kind, apiKey |-> k, seeded |-> seeded]
    /\ handle' = Undef
    /\ timer' = 0
    /\ resp' = NoResp
    /\ nStatus' = 0
    /\ nWaits' = 0
    /\ statusLog' = <<>>
    /\ failedCall' = FALSE
    /\ UNCHANGED <<config, job>>

\* callProxy up to its await: the fetch is issued.
Fetch(endpoint, payload, k, calls) ==
    /\ req' = Request(IF client = "server"
                      THEN CallProxyBodyServer(endpoint, payload)
                      ELSE CallProxyBodyKeyed(k, endpoint, payload))
    /\ pc' = "sent"
    /\ nRelayCalls' = IF calls < MaxCount THEN calls + 1 ELSE MaxCount
    /\ remoteCall' = NoRemoteCall

\* Mutant: the guard against an empty key is missing.
ValidateSkipsCall_Never(k) == FALSE

\* validateApiKey's guard: an empty key is refused without a call.
ValidateSkipsCall(k) == client # "server" /\ k = EmptyStr

StartReadiness(k) ==
    /\ Begin("readiness", k, FALSE)
    /\ IF ValidateSkipsCall(k)
       THEN /\ result' = ReturnedBoolean(FALSE)
            /\ pc' = "done"
            /\ nRelayCalls' = 0
            /\ req' = NoReq
            /\ remoteCall' = NoRemoteCall
       ELSE /\ Fetch("validate", EmptyObject, k, 0)
            /\ result' = NoResult

StartImage(k) ==
    /\ Begin("image", k, FALSE)
    /\ Fetch("generateImages", ImagePayload, k, 0)
    /\ result' = NoResult

StartEdit(k) ==
    /\ Begin("edit", k, FALSE)
    /\ Fetch("generateContent", EditPayload, k, 0)
    /\ result' = NoResult

StartVideo(k, seeded) ==
    /\ Begin("video", k, seeded)
    /\ Fetch("generateVideos", GenerateParams(seeded), k, 0)
    /\ result' = NoResult

history == <<nRelayCalls, nStatus, nWaits, statusLog, failedCall>>

\* The relay handles the request; the remote call it makes, if any, is
\* answered by the remote service.
RelayHandle ==
    /\ pc = "sent"
    /\ \E out \in (IF RelayCallsRemote(req)
                   THEN RemoteOutcomes(Val(Get(Val(req.json), "endpoint")),
                                       RelayKey(req), RelayArg(req))
                   ELSE {NoCall}) :
          /\ resp' = RelayRespond(req, out)
          /\ job' = IF RelayCallsRemote(req) /\ ~out.threw THEN out.job ELSE job
          /\ remoteCall' = IF RelayCallsRemote(req)
                           THEN RemoteCall(Val(Get(Val(req.json), "endpoint")),
                                           RelayKey(req), RelayArg(req), out)
                           ELSE NoRemoteCall
    /\ pc' = "answered"
    /\ UNCHANGED <<config, op, req, handle, timer, result, history>>

\* The fetch rejects: the relay was not reached.
NetFail ==
    /\ pc = "sent"
    /\ resp' = NoResp
    /\ pc' = "answered"
    /\ UNCHANGED <<config, op, req, handle, timer, result, job, history, remoteCall>>

\* The hosting platform answers instead of the handler, with a body that
\* is not JSON.
GatewayAnswers ==
    /\ pc = "sent"
    /\ \E st \in {200, 502} : resp' = [status |-> st, json |-> Undef, delivered |-> TRUE]
    /\ pc' = "answered"
    /\ UNCHANGED <<config, op, req, handle, timer, result, job, history, remoteCall>>

Awaited == CallProxy(resp, Val(Get(Val(req.json), "endpoint")))

\* The continuation of a single-call operation after callProxy settles.
Finish(kind, res) ==
    /\ pc = "answered"
    /\ op.kind = kind
    /\ result' = res
    /\ failedCall' = (Awaited.kind = "threw")
    /\ pc' = "done"
    /\ UNCHANGED <<config, op, req, resp, handle, timer, job, nRelayCalls, nStatus,
                   nWaits, statusLog, remoteCall>>

ReadinessReturns == Finish("readiness", ReadinessResult(Awaited))

ImageReturns == Finish("image", ImagesResult(Awaited))

EditReturns == Finish("edit", EditResult(Awaited))

\* generateVideoWithVeo resumes after the submit or a status query: the
\* handle is replaced, then the loop either starts a wait or ends.
VideoReceives ==
    /\ pc = "answered"
    /\ op.kind = "video"
    /\ IF Awaited.kind = "threw"
       THEN /\ result' = Awaited
            /\ failedCall' = TRUE
            /\ pc' = "done"
            /\ UNCHANGED <<handle, timer, nWaits, statusLog>>
       ELSE /\ handle' = Some(Awaited.value)
            /\ statusLog' = IF Val(Get(Val(req.json), "endpoint")) = "getVideosOperation"
                               /\ Len(statusLog) < MaxCount
                            THEN Append(statusLog, Awaited.value.done)
                            ELSE statusLog
            /\ failedCall' = FALSE
            /\ IF LoopContinues(Awaited.value)
               THEN /\ timer' = PollDelayMs
                    /\ nWaits' = Sat(nWaits)
                    /\ pc' = "waiting"
                    /\ result' = NoResult
               ELSE /\ result' = VideoResult(Awaited.value, op.apiKey)
                    /\ pc' = "done"
                    /\ UNCHANGED <<timer, nWaits>>
    /\ UNCHANGED <<config, op, req, resp, job, nRelayCalls, nStatus, remoteCall>>

\* The timer fires: the status query for the held handle is issued.
TimerFires ==
    /\ pc = "waiting"
    /\ timer' = 0
    /\ Fetch("getVideosOperation", StatusPayload(Val(handle)), op.apiKey, nRelayCalls)
    /\ nStatus' = Sat(nStatus)
    /\ UNCHANGED <<config, op, resp, handle, result, job, nWaits, statusLog, failedCall>>

\* The remote service finishes the job.
RemoteFinish ==
    /\ job.name # "none"
    /\ ~job.done
    /\ \E v \in VideoShapes : job' = [job EXCEPT !.done = TRUE, !.response = v]
    /\ UNCHANGED <<config, op, pc, req, resp, handle, timer, result, history, remoteCall>>

Next ==
    \/ \E k \in {EmptyStr} \cup Keys : StartReadiness(k)
    \/ \E k \in {EmptyStr} \cup Keys : StartImage(k)
    \/ \E k \in {EmptyStr} \cup Keys : StartEdit(k)
    \/ \E k \in {EmptyStr} \cup Keys, seeded \in BOOLEAN : StartVideo(k, seeded)
    \/ RelayHandle
    \/ NetFail
    \/ GatewayAnswers
    \/ ReadinessReturns
    \/ ImageReturns
    \/ EditReturns
    \/ VideoReceives
    \/ TimerFires
    \/ RemoteFinish

Spec == Init /\ [][Next]_vars

----------------------------------------------------------------------------
(* Fairness: a pending timer fires, a fetch settles (answered by the relay *)
(* or the platform, or rejected), and the awaiting function then resumes.  *)

LiveSpec ==
    /\ Spec
    /\ WF_vars(TimerFires)
    /\ WF_vars(RelayHandle \/ NetFail \/ GatewayAnswers)
    /\ WF_vars(VideoReceives)

----------------------------------------------------------------------------
(* The App component's credential handling (App.tsx in its three           *)
(* client-supplied-key snapshots), the engine functions it calls in the    *)
(* direct-SDK and relay snapshots of geminiService.ts, and ImageEditor.    *)

MsgInvalidKey == <<"The provided API Key is invalid or lacks permissions. Please check your key and try again.">>

MsgUnknown == <<"An unknown error occurred.">>

\* The values a caller passes to onApiKeySubmit; " " is whitespace.
RawKeys == { EmptyStr, KeyGood, KeyBad, <<" ">>, <<" ", "k1", " ">> }

RECURSIVE TrimStart(_)
TrimStart(s) == IF s # <<>> /\ Head(s) = " " THEN TrimStart(Tail(s)) ELSE s

RECURSIVE TrimEnd(_)
TrimEnd(s) == IF s # <<>> /\ s[Len(s)] = " " THEN TrimEnd(SubSeq(s, 1, Len(s) - 1)) ELSE s

\* String.prototype.trim
Trim(s) == TrimEnd(TrimStart(s))

\* Mutant: every error is reported with the generic wrapping.
HandleApiError_Wraps(message, context) ==
    Thrown(<<"Failed to ", context, " with Gemini API: ">> \o message)

\* handleApiError, for an Error with the given message.
HandleApiError(message, context) ==
    IF Includes(message, "API key") \/ Includes(message, "permission")
    THEN Thrown(MsgInvalidKey)
    ELSE Thrown(<<"Failed to ", context, " with Gemini API: ">> \o message)

\* Why a call of the remote service ended as it did.
Cause(out, key) ==
    IF ~out.threw THEN "none" ELSE IF key \in accepted THEN "remote" ELSE "rejected"

\* The ways one call of the service layer can settle: through the relay in
\* the relay snapshot, straight to the SDK in the direct snapshots.
ServiceCalls(endpoint, key, payload) ==
    IF client = "keyed"
    THEN LET r == Request(CallProxyBodyKeyed(key, endpoint, payload))
         IN  { [res |-> CallProxyKeyed(NoResp, endpoint), cause |-> "transport"] }
             \cup { [res |-> CallProxyKeyed([status |-> st, json |-> Undef, delivered |-> TRUE],
                                           endpoint),
                     cause |-> "transport"] : st \in {200, 502} }
             \cup IF HandlerCallsRemote(r)
                  THEN { [res |-> CallProxyKeyed(Handler(r, out), endpoint),
                          cause |-> Cause(out, key)] :
                            out \in RemoteOutcomes(endpoint, key, payload) }
                  ELSE { [res |-> CallProxyKeyed(Handler(r, NoCall), endpoint),
                          cause |-> "refused"] }
    ELSE { [res |-> IF out.threw
                    THEN Thrown(OrElse(out.message, EmptyStr))
                    ELSE Returned(out.value),
            cause |-> Cause(out, key)] :
              out \in RemoteOutcomes(endpoint, key, payload) }

\* validateApiKey: the boolean it returns, and why.
ValidateOutcomes(key) ==
    IF ValidateSkipsCall(key)
    THEN { [isValid |-> FALSE, cause |-> "skipped"] }
    ELSE { [isValid |-> ReadinessResult(c.res).value, cause |-> c.cause] :
             c \in ServiceCalls("validate", key, EmptyObject) }

\* editImageWithNanoBanana of the snapshot with handleApiError: the whole
\* body is inside the try.
EditGuarded(cp) ==
    LET r == EditResult(cp)
    IN  IF r.kind = "threw" THEN HandleApiError(r.message, "edit image") ELSE r

\* editImageWithNanoBanana(apiKey, ...): how it ends, and why.
EditOutcomes(key) ==
    { [res |-> IF client = "sdkErr" THEN EditGuarded(c.res) ELSE EditResult(c.res),
       cause |-> c.cause] :
         c \in ServiceCalls("generateContent", key, EditPayload) }

\* The key handleApiKeySubmit tests and validates.
SubmitKey(raw) == IF app = "A3" THEN Trim(raw) ELSE raw

Event(kind, key, valid, initial, cause) ==
    [kind |-> kind, key |-> key, valid |-> valid, initial |-> initial, cause |-> cause,
     keyAccepted |-> key \in accepted, before |-> <<apiKeyS, storage>>]

\* handleApiKeySubmit(raw, initial) up to its return or its await, run on
\* the component state st.
HandleApiKeySubmit(raw, initial, st) ==
    LET key == SubmitKey(raw)
    IN  IF key = EmptyStr
        THEN /\ apiKeyS' = EmptyStr
             /\ isKeyValid' = "false"
             /\ isKeyChecking' = (app = "A1" /\ st.checking)
             /\ storage' = Undef
             /\ pending' = st.pending
             /\ lastEvent' = Event("cleared", key, FALSE, initial, "none")
        ELSE /\ apiKeyS' = IF app = "A3" THEN st.apiKey ELSE key
             /\ isKeyValid' = IF app = "A1" THEN "null" ELSE st.valid
             /\ isKeyChecking' = IF app = "A3" /\ initial THEN st.checking ELSE TRUE
             /\ storage' = storage
             /\ pending' = st.pending \cup {[key |-> key, initial |-> initial]}
             /\ lastEvent' = Event("submitted", key, FALSE, initial, "none")

\* Mutant: a validated key is not written.
StorageAfter_NeverWrites(stored, key, isValid, initial) ==
    IF isValid THEN stored ELSE IF app = "A2" /\ initial THEN stored ELSE Undef

\* The localStorage item after handleApiKeySubmit resumes with isValid.
StorageAfter(stored, key, isValid, initial) ==
    IF isValid THEN Some(key) ELSE IF app = "A2" /\ initial THEN stored ELSE Undef

\* The apiKey state after handleApiKeySubmit resumes with isValid.
ApiKeyAfter(cur, key, isValid) ==
    IF app = "A3" THEN (IF isValid THEN key ELSE EmptyStr) ELSE cur

AppKinds == {"A1", "A2", "A3"}

ServiceKinds == {"sdk", "sdkErr", "keyed"}

AppInit ==
    /\ client \in ServiceKinds
    /\ relay = (IF client = "keyed" THEN "src" ELSE "none")
    /\ envKey = Undef
    /\ accepted = {KeyGood}
    /\ app \in AppKinds
    /\ storage \in {Undef, Some(KeyGood), Some(KeyBad)}
    /\ AppAtRest
    /\ EngineAtRest
    /\ UiAtRest
    /\ PairAtRest
    /\ KeyAtRest

fixed == <<engineVars, app, uiVars, pairVars, keyVars>>

\* App's state at its first render.
Fresh ==
    [apiKey |-> IF app = "A3" THEN OrElse(storage, EmptyStr) ELSE EmptyStr,
     valid |-> "null", checking |-> (app # "A1"), pending |-> {}]

\* App's state at present.
Current ==
    [apiKey |-> apiKeyS, valid |-> isKeyValid, checking |-> isKeyChecking,
     pending |-> pending]

\* The component state is initialised and the mount effect runs.
Mount ==
    /\ IF StrTruthy(storage)
       THEN HandleApiKeySubmit(Val(storage), app # "A1", Fresh)
       ELSE /\ apiKeyS' = EmptyStr
            /\ isKeyValid' = "null"
            /\ isKeyChecking' = FALSE
            /\ pending' = {}
            /\ storage' = storage
            /\ lastEvent' = Event("loaded", EmptyStr, FALSE, TRUE, "none")
    /\ mounted' = TRUE
    /\ tool' = NoTool

\* The page loads.
Load ==
    /\ Mount
    /\ UNCHANGED <<fixed, accepted>>

\* ApiKeyInput calls onApiKeySubmit(raw), from its form or from its
\* debounce timer.
Submit(raw) ==
    /\ mounted
    /\ SubmitKey(raw) = EmptyStr \/ Cardinality(pending) < MaxPending
    /\ HandleApiKeySubmit(raw, FALSE, Current)
    /\ UNCHANGED <<fixed, accepted, mounted, tool>>

\* validateApiKey settles and handleApiKeySubmit runs to its end.
Resumes ==
    \E p \in pending : \E o \in ValidateOutcomes(p.key) :
       /\ isKeyValid' = (IF o.isValid THEN "true" ELSE "false")
       /\ isKeyChecking' = FALSE
       /\ storage' = StorageAfter(storage, p.key, o.isValid, p.initial)
       /\ apiKeyS' = ApiKeyAfter(apiKeyS, p.key, o.isValid)
       /\ pending' = pending \ {p}
       /\ lastEvent' = Event("validated", p.key, o.isValid, p.initial, o.cause)

\* A pending validation returns.
ValidationReturns ==
    /\ mounted
    /\ Resumes
    /\ UNCHANGED <<fixed, accepted, mounted, tool>>

\* ImageEditor.handleSubmit up to its await, with one image selected.
ToolStart ==
    /\ mounted
    /\ isKeyValid = "true"
    /\ ~tool.busy
    /\ tool' = [busy |-> TRUE, key |-> apiKeyS, error |-> Undef]
    /\ lastEvent' = Event("toolStarted", apiKeyS, FALSE, FALSE, "none")
    /\ UNCHANGED <<fixed, accepted, apiKeyS, isKeyValid, isKeyChecking, storage, pending,
                   mounted>>

\* Mutant: a failed edit drops the credential.
ToolEnds_ClearsKey ==
    /\ mounted
    /\ tool.busy
    /\ \E o \in EditOutcomes(tool.key) :
          /\ tool' = [busy |-> FALSE, key |-> tool.key,
                      error |-> IF o.res.kind = "threw"
                                THEN Some(OrElse(Some(o.res.message), MsgUnknown))
                                ELSE Undef]
          /\ apiKeyS' = IF o.res.kind = "threw" THEN EmptyStr ELSE apiKeyS
          /\ storage' = IF o.res.kind = "threw" THEN Undef ELSE storage
          /\ lastEvent' = Event("tool", tool.key, o.res.kind = "returned", FALSE, o.cause)
    /\ UNCHANGED <<fixed, accepted, isKeyValid, isKeyChecking, pending, mounted>>

\* editImageWithNanoBanana settles and handleSubmit runs to its end.
ToolEnds ==
    /\ mounted
    /\ tool.busy
    /\ \E o \in EditOutcomes(tool.key) :
          /\ tool' = [busy |-> FALSE, key |-> tool.key,
                      error |-> IF o.res.kind = "threw"
                                THEN Some(OrElse(Some(o.res.message), MsgUnknown))
                                ELSE Undef]
          /\ lastEvent' = Event("tool", tool.key, o.res.kind = "returned", FALSE, o.cause)
    /\ UNCHANGED <<fixed, accepted, apiKeyS, isKeyValid, isKeyChecking, storage, pending,
                   mounted>>

\* The remote service stops accepting the key.
Revoke ==
    /\ accepted # {}
    /\ accepted' = {}
    /\ UNCHANGED <<fixed, apiKeyS, isKeyValid, isKeyChecking, storage, pending, mounted,
                   tool, lastEvent>>

AppNext ==
    \/ Load
    \/ \E raw \in RawKeys : Submit(raw)
    \/ ValidationReturns
    \/ ToolStart
    \/ ToolEnds
    \/ Revoke

SpecApp == AppInit /\ [][AppNext]_vars

----------------------------------------------------------------------------
(* ApiKeyInput and the App that renders it: the text field, the debounce   *)
(* effect and the form.                                                    *)

\* setTimeout(..., 750)
DebounceMs == 750

\* Whether the render after a step re-runs the debounce effect: one of its
\* dependencies [inputValue, apiKey, onApiKeySubmit] changed.  The first two
\* App snapshots pass a useCallback that never changes; the third passes an
\* arrow function created by each render of App.
EffectReruns(inp, st) ==
    \/ inputValue' # inp
    \/ apiKeyS' # st.apiKey
    \/ app = "A3" /\ <<isKeyValid', isKeyChecking'>> # <<st.valid, st.checking>>

\* The effect's cleanup clears the timer and its body starts a new one.
TimerAfter(inp, st, left) == IF EffectReruns(inp, st) THEN DebounceMs ELSE left

KeyInit ==
    /\ client = "keyed"
    /\ relay = "src"
    /\ envKey = Undef
    /\ accepted = {KeyGood}
    /\ app \in AppKinds
    /\ storage \in {Undef, Some(KeyGood), Some(KeyBad)}
    /\ AppAtRest
    /\ EngineAtRest
    /\ UiAtRest
    /\ PairAtRest
    /\ KeyAtRest

\* What no step of the key form changes.
keyFrame == <<engineVars, app, accepted, uiVars, pairVars>>

\* The page loads: App and ApiKeyInput render for the first time, the
\* effect's first run only clears isInitialMount, and App's mount effect
\* runs.
KeyLoad ==
    /\ ~mounted
    /\ Mount
    /\ inputValue' = Fresh.apiKey
    /\ debounce' = TimerAfter(Fresh.apiKey, Fresh, 0)
    /\ nDebounced' = 0
    /\ UNCHANGED keyFrame

\* The user changes the text field.
KeyTypes(v) ==
    /\ mounted
    /\ v # inputValue
    /\ inputValue' = v
    /\ debounce' = DebounceMs
    /\ nDebounced' = 0
    /\ UNCHANGED <<keyFrame, apiKeyS, isKeyValid, isKeyChecking, storage, pending,
                   mounted, tool, lastEvent>>

\* The user submits the form.
KeyFormSubmit ==
    /\ mounted
    /\ ~isKeyChecking
    /\ inputValue # EmptyStr
    /\ SubmitKey(inputValue) = EmptyStr \/ Cardinality(pending) < MaxPending
    /\ HandleApiKeySubmit(inputValue, FALSE, Current)
    /\ inputValue' = inputValue
    /\ debounce' = TimerAfter(inputValue, Current, debounce)
    /\ nDebounced' = 0
    /\ UNCHANGED <<keyFrame, mounted, tool>>

\* The debounce timer fires.
DebounceFires ==
    /\ mounted
    /\ debounce # 0
    /\ inputValue' = inputValue
    /\ IF inputValue # apiKeyS
       THEN /\ SubmitKey(inputValue) = EmptyStr
               \/ (Cardinality(pending) < MaxPending /\ nDebounced < MaxDebounced)
            /\ HandleApiKeySubmit(inputValue, FALSE, Current)
            /\ debounce' = TimerAfter(inputValue, Current, 0)
            /\ nDebounced' = IF SubmitKey(inputValue) = EmptyStr
                             THEN nDebounced ELSE nDebounced + 1
       ELSE /\ debounce' = 0
            /\ UNCHANGED <<apiKeyS, isKeyValid, isKeyChecking, storage, pending,
                           lastEvent, nDebounced>>
    /\ UNCHANGED <<keyFrame, mounted, tool>>

\* A pending validation returns and ApiKeyInput renders with the new props.
KeyValidationReturns ==
    /\ mounted
    /\ Resumes
    /\ inputValue' = inputValue
    /\ debounce' = TimerAfter(inputValue, Current, debounce)
    /\ UNCHANGED <<keyFrame, nDebounced, mounted, tool>>

KeyNext ==
    \/ KeyLoad
    \/ \E v \in RawKeys : KeyTypes(v)
    \/ KeyFormSubmit
    \/ DebounceFires
    \/ KeyValidationReturns

SpecKey == KeyInit /\ [][KeyNext]_vars

----------------------------------------------------------------------------
(* The relay on its own: any HTTP request may reach it.                    *)

ApiKeyFields == { Undef, Some(EmptyStr), Some(KeyGood), Some(KeyBad) }

EndpointFields == { Undef, Some("") } \cup { Some(e) : e \in Endpoints \cup {"unknown"} }

\* Payloads: the empty object, generation parameters, and the status query
\* in both clients' forms.
Payloads ==
    { EmptyObject, GenerateParams(FALSE),
      [operationName |-> Some("opA")],
      [operation |-> Some([name |-> Some("opA"), done |-> FALSE, response |-> Undef])] }

PayloadFields == { Undef } \cup { Some(p) : p \in Payloads }

\* The bodies req.json() can yield; an absent field reads as undefined.
Bodies ==
    { [apiKey |-> a, endpoint |-> e, payload |-> p] :
        a \in ApiKeyFields, e \in EndpointFields, p \in PayloadFields }

\* The requests: a verb, and a body that parses to an object or does not.
RelayRequests ==
    { [method |-> m, json |-> j] :
        m \in {"POST", "GET"}, j \in { Undef } \cup { Some(b) : b \in Bodies } }

RelayInit ==
    /\ relay \in {"src", "env"}
    /\ client = (IF relay = "env" THEN "server" ELSE "keyed")
    /\ envKey \in (IF relay = "env" THEN {Undef, Some(KeyGood), Some(KeyBad)} ELSE {Undef})
    /\ accepted = {KeyGood}
    /\ app = "none"
    /\ storage = Undef
    /\ AppAtRest
    /\ EngineAtRest
    /\ UiAtRest
    /\ PairAtRest
    /\ KeyAtRest

\* A request reaches the relay.
Arrives(r) ==
    /\ pc \in {"idle", "answered"}
    /\ req' = r
    /\ resp' = NoResp
    /\ remoteCall' = NoRemoteCall
    /\ pc' = "sent"
    /\ UNCHANGED <<config, op, handle, timer, result, job, nRelayCalls, nStatus, nWaits,
                   statusLog, failedCall>>

RelayNext ==
    \/ \E r \in RelayRequests : Arrives(r)
    \/ RelayHandle
    \/ RemoteFinish

SpecRelay == RelayInit /\ [][RelayNext]_vars

----------------------------------------------------------------------------
(* The page of the server-held-credential deployment: App with its         *)
(* readiness check (App.tsx, last snapshot), VideoGenerator and            *)
(* ImageStudio.  A handler run suspended at an await is an element of      *)
(* `runs`; the state updates of a run whose component has unmounted are    *)
(* dropped.                                                                *)

MsgPrompt == <<"Please provide a prompt.">>

MsgPromptAndImage == <<"Please provide a prompt and at least one image.">>

MsgUnknownGenerate == <<"An unknown error occurred during image generation.">>

MsgUnknownEdit == <<"An unknown error occurred during image editing.">>

StatusGenerating == <<"Generating image...">>

\* `Editing image ${i + 1} of ${imageFiles.length}: ${file.name}`
StatusEditing(i, files) ==
    <<"Editing image ", ToString(i), " of ", ToString(Len(files)), ": ", files[i]>>

\* The files a user can pick.
FileNames == {"a.png", "b.png"}

\* URL.createObjectURL(file)
Preview(file) == <<"blob:", file>>

Prompts == { EmptyStr, <<"p">> }

\* The ways one callProxy of the page can settle.
PageCalls(endpoint, payload) ==
    LET r == Request(CallProxyBodyServer(endpoint, payload))
    IN  { CallProxyServer(NoResp) }
        \cup IF RelayCallsRemote(r)
             THEN { CallProxyServer(RelayRespond(r, out)) :
                      out \in RemoteOutcomes(endpoint, RelayKey(r), RelayArg(r)) }
             ELSE { CallProxyServer(RelayRespond(r, NoCall)) }

\* How checkApiReadiness can end.
CheckEnds == { ReadinessResult(c).value : c \in PageCalls("validate", EmptyObject) }

\* How generateImageWithImagen can end.
GenerateEnds == { ImagesResult(c) : c \in PageCalls("generateImages", ImagePayload) }

\* The response parts that the page's edit runs are shown with.
PageParts ==
    << [text |-> Some(<<"t1">>), inlineData |-> Undef],
       [text |-> Undef, inlineData |-> Some([mimeType |-> "image/png", data |-> "d1"])] >>

\* How editImageWithNanoBanana can end: with any of its failures, or with
\* the parts of the response above.
EditEnds ==
    LET all == { EditResult(c) : c \in PageCalls("generateContent", EditPayload) }
    IN  { o \in all : o.kind = "threw" \/ o.value = MapParts(PageParts) }

\* How generateVideoWithVeo can end: with the failure of a relay call, or
\* on the done handle that the submit or a status query brought.
VideoEnds ==
    LET submits == PageCalls("generateVideos", GenerateParams(FALSE))
        ended   == { OperationOf([name |-> n, done |-> TRUE, response |-> v]) :
                       n \in JobNames, v \in VideoShapes }
    IN  { c \in submits : c.kind = "threw" }
        \cup { VideoResultServer(o) : o \in ended }
        \cup IF relay = "env" /\ StrTruthy(envKey)
             THEN { VideoResultServer(SignOperation(o, Val(envKey))) : o \in ended }
             ELSE {}

\* A handler run at its await.  An edit run holds the imageFiles of its
\* closure, the index of the image whose call is in flight and newResults.
Run(owner, kind, files, i, newResults) ==
    [owner |-> owner, live |-> TRUE, kind |-> kind, files |-> files, i |-> i,
     newResults |-> newResults]

RemoveAt(s, k) == SubSeq(s, 1, k - 1) \o SubSeq(s, k + 1, Len(s))

\* The component that renders for a tool.
OwnerOf(t) == IF t = "VIDEO_GENERATOR" THEN "video" ELSE "studio"

\* The tool's component is on the page.
Rendered(t) == isApiReady = "true" /\ activeTool = t

\* err.message || fallback
ErrorText(o, fallback) == OrElse(Some(o.message), fallback)

\* The page has loaded and the mount effect has called
\* checkServerReadiness.
UiInit ==
    /\ client = "server"
    /\ relay \in {"env", "src"}
    /\ envKey \in (IF relay = "env" THEN {Undef, Some(KeyGood), Some(KeyBad)} ELSE {Undef})
    /\ accepted = {KeyGood}
    /\ app = "none"
    /\ storage = Undef
    /\ AppAtRest
    /\ EngineAtRest
    /\ isApiReady = "null"
    /\ activeTool = "IMAGE_STUDIO"
    /\ videoGen = NoVideoGen
    /\ studio = NoStudio
    /\ runs = << Run("app", "readiness", <<>>, 0, <<>>) >>
    /\ lastOutcome = "none"
    /\ PairAtRest
    /\ KeyAtRest

\* What no step of the page changes.
still == <<engineVars, appVars, pairVars, keyVars>>

\* checkServerReadiness resumes.
CheckServerReadinessReturns ==
    /\ \E k \in DOMAIN runs :
          /\ runs[k].kind = "readiness"
          /\ \E isReady \in CheckEnds :
                isApiReady' = (IF isReady THEN "true" ELSE "false")
          /\ runs' = RemoveAt(runs, k)
    /\ UNCHANGED <<still, activeTool, videoGen, studio, lastOutcome>>

\* A click on a tool tab: the other component unmounts, the chosen one
\* mounts.
SetActiveTool(t) ==
    /\ isApiReady = "true"
    /\ t # activeTool
    /\ activeTool' = t
    /\ runs' = [k \in DOMAIN runs |->
                  IF runs[k].owner = OwnerOf(activeTool)
                  THEN [runs[k] EXCEPT !.live = FALSE]
                  ELSE runs[k]]
    /\ videoGen' = NoVideoGen
    /\ studio' = NoStudio
    /\ lastOutcome' = "none"
    /\ UNCHANGED <<still, isApiReady>>

----------------------------------------------------------------------------
(* VideoGenerator.                                                         *)

SetVideoPrompt(p) ==
    /\ Rendered("VIDEO_GENERATOR")
    /\ p # videoGen.prompt
    /\ videoGen' = [videoGen EXCEPT !.prompt = p]
    /\ UNCHANGED <<still, isApiReady, activeTool, studio, runs, lastOutcome>>

\* handleFileChange with a file.
VideoHandleFileChange ==
    /\ Rendered("VIDEO_GENERATOR")
    /\ IsDef(videoGen.resultUri)
    /\ videoGen' = [videoGen EXCEPT !.resultUri = Undef]
    /\ UNCHANGED <<still, isApiReady, activeTool, studio, runs, lastOutcome>>

\* Mutant: the button stays enabled while a video is generated.
VideoSubmitDisabled_IgnoresLoading(st) == st.prompt = EmptyStr \/ isApiReady # "true"

\* The submit button's disabled attribute.
VideoSubmitDisabled(st) == st.isLoading \/ st.prompt = EmptyStr \/ isApiReady # "true"

\* handleSubmit up to its await.
VideoHandleSubmit ==
    /\ Rendered("VIDEO_GENERATOR")
    /\ ~VideoSubmitDisabled(videoGen)
    /\ Len(runs) < MaxRuns
    /\ IF videoGen.prompt = EmptyStr
       THEN /\ videoGen' = [videoGen EXCEPT !.error = Some(MsgPrompt)]
            /\ runs' = runs
       ELSE /\ videoGen' = [videoGen EXCEPT !.isLoading = TRUE, !.error = Undef,
                                            !.resultUri = Undef]
            /\ runs' = Append(runs, Run("video", "video", <<>>, 0, <<>>))
    /\ UNCHANGED <<still, isApiReady, activeTool, studio, lastOutcome>>

\* Mutant: a failure leaves the in-progress flag set.
VideoAfter_NoFinally(st, o) ==
    IF o.kind = "returned"
    THEN [st EXCEPT !.resultUri = Some(o.value), !.isLoading = FALSE]
    ELSE [st EXCEPT !.error = Some(ErrorText(o, MsgUnknown))]

\* handleSubmit from the await on: try, catch, finally.
VideoAfter(st, o) ==
    IF o.kind = "returned"
    THEN [st EXCEPT !.resultUri = Some(o.value), !.isLoading = FALSE]
    ELSE [st EXCEPT !.error = Some(ErrorText(o, MsgUnknown)), !.isLoading = FALSE]

\* generateVideoWithVeo settles and handleSubmit runs to its end.
VideoSettles ==
    /\ \E k \in DOMAIN runs :
          /\ runs[k].kind = "video"
          /\ \E o \in VideoEnds :
                IF runs[k].live
                THEN /\ videoGen' = VideoAfter(videoGen, o)
                     /\ lastOutcome' = o.kind
                ELSE UNCHANGED <<videoGen, lastOutcome>>
          /\ runs' = RemoveAt(runs, k)
    /\ UNCHANGED <<still, isApiReady, activeTool, studio>>

----------------------------------------------------------------------------
(* ImageStudio.                                                            *)

SetStudioPrompt(p) ==
    /\ Rendered("IMAGE_STUDIO")
    /\ p # studio.prompt
    /\ studio' = [studio EXCEPT !.prompt = p]
    /\ UNCHANGED <<still, isApiReady, activeTool, videoGen, runs, lastOutcome>>

HandleModeChange(newMode) ==
    /\ Rendered("IMAGE_STUDIO")
    /\ studio' = [studio EXCEPT !.mode = newMode, !.error = Undef, !.editResults = <<>>,
                                !.generatedImages = <<>>]
    /\ UNCHANGED <<still, isApiReady, activeTool, videoGen, runs, lastOutcome>>

HandleFileChange(file) ==
    /\ Rendered("IMAGE_STUDIO")
    /\ studio.mode = "EDIT"
    /\ Len(studio.imageFiles) < MaxFiles
    /\ studio' = [studio EXCEPT !.imageFiles = Append(@, file), !.editResults = <<>>]
    /\ UNCHANGED <<still, isApiReady, activeTool, videoGen, runs, lastOutcome>>

HandleRemoveImage(indexToRemove) ==
    /\ Rendered("IMAGE_STUDIO")
    /\ studio.mode = "EDIT"
    /\ indexToRemove \in DOMAIN studio.imageFiles
    /\ studio' = [studio EXCEPT !.imageFiles = RemoveAt(@, indexToRemove)]
    /\ UNCHANGED <<still, isApiReady, activeTool, videoGen, runs, lastOutcome>>

ClearAllImages ==
    /\ Rendered("IMAGE_STUDIO")
    /\ studio.mode = "EDIT"
    /\ studio.imageFiles # <<>>
    /\ studio' = [studio EXCEPT !.imageFiles = <<>>, !.editResults = <<>>]
    /\ UNCHANGED <<still, isApiReady, activeTool, videoGen, runs, lastOutcome>>

HandleEditGeneratedImage ==
    /\ Rendered("IMAGE_STUDIO")
    /\ studio.generatedImages # <<>>
    /\ studio' = [studio EXCEPT !.imageFiles = <<"generated-image.png">>,
                                !.generatedImages = <<>>, !.mode = "EDIT"]
    /\ UNCHANGED <<still, isApiReady, activeTool, videoGen, runs, lastOutcome>>

\* Mutant: the button stays enabled while a run is in progress.
IsSubmitDisabled_IgnoresLoading(st) ==
    \/ st.prompt = EmptyStr \/ isApiReady # "true"
    \/ st.mode = "EDIT" /\ Len(st.imageFiles) = 0

IsSubmitDisabled(st) ==
    \/ st.isLoading \/ st.prompt = EmptyStr \/ isApiReady # "true"
    \/ st.mode = "EDIT" /\ Len(st.imageFiles) = 0

\* handleGenerateSubmit up to its await.
HandleGenerateSubmit ==
    IF studio.prompt = EmptyStr
    THEN /\ studio' = [studio EXCEPT !.error = Some(MsgPrompt)]
         /\ runs' = runs
    ELSE /\ studio' = [studio EXCEPT !.isLoading = TRUE, !.error = Undef,
                                     !.generatedImages = <<>>,
                                     !.processingStatus = Some(StatusGenerating)]
         /\ runs' = Append(runs, Run("studio", "generate", <<>>, 0, <<>>))

\* handleEditSubmit up to the await of the first image's call.
HandleEditSubmit ==
    IF studio.prompt = EmptyStr \/ Len(studio.imageFiles) = 0
    THEN /\ studio' = [studio EXCEPT !.error = Some(MsgPromptAndImage)]
         /\ runs' = runs
    ELSE /\ studio' = [studio EXCEPT !.isLoading = TRUE, !.error = Undef,
                                     !.editResults = <<>>,
                                     !.processingStatus =
                                         Some(StatusEditing(1, studio.imageFiles))]
         /\ runs' = Append(runs, Run("studio", "edit", studio.imageFiles, 1, <<>>))

\* The form's handleSubmit.
StudioHandleSubmit ==
    /\ Rendered("IMAGE_STUDIO")
    /\ ~IsSubmitDisabled(studio)
    /\ Len(runs) < MaxRuns
    /\ IF studio.mode = "GENERATE" THEN HandleGenerateSubmit ELSE HandleEditSubmit
    /\ UNCHANGED <<still, isApiReady, activeTool, videoGen, lastOutcome>>

\* handleGenerateSubmit from the await on.
GenerateAfter(st, o) ==
    IF o.kind = "returned"
    THEN [st EXCEPT !.generatedImages = o.value, !.isLoading = FALSE,
                    !.processingStatus = Undef]
    ELSE [st EXCEPT !.error = Some(ErrorText(o, MsgUnknownGenerate)), !.isLoading = FALSE,
                    !.processingStatus = Undef]

\* generateImageWithImagen settles and handleGenerateSubmit runs to its end.
GenerateSettles ==
    /\ \E k \in DOMAIN runs :
          /\ runs[k].kind = "generate"
          /\ \E o \in GenerateEnds :
                IF runs[k].live
                THEN /\ studio' = GenerateAfter(studio, o)
                     /\ lastOutcome' = o.kind
                ELSE UNCHANGED <<studio, lastOutcome>>
          /\ runs' = RemoveAt(runs, k)
    /\ UNCHANGED <<still, isApiReady, activeTool, videoGen>>

\* The entry pushed on newResults for the image of the run's index.
EditEntry(run, o) ==
    [originalPreview |-> Preview(run.files[run.i]), originalName |-> run.files[run.i],
     editedParts |-> o.value]

\* Mutant: the loop goes on to the next image after a failure.
EditContinues_AfterFailure(run, o) == run.i < Len(run.files)

\* The loop of handleEditSubmit goes on to another image.
EditContinues(run, o) == o.kind = "returned" /\ run.i < Len(run.files)

\* The run after the call for its image has settled, when the loop goes on.
EditRunAfter(run, o) ==
    [run EXCEPT !.i = run.i + 1,
                !.newResults = IF o.kind = "returned" THEN Append(@, EditEntry(run, o)) ELSE @]

\* ImageStudio's state after the call for the run's image has settled.
EditAfter(st, run, o) ==
    IF o.kind = "returned"
    THEN IF EditContinues(run, o)
         THEN [st EXCEPT !.editResults = Append(run.newResults, EditEntry(run, o)),
                         !.processingStatus = Some(StatusEditing(run.i + 1, run.files))]
         ELSE [st EXCEPT !.editResults = Append(run.newResults, EditEntry(run, o)),
                         !.isLoading = FALSE, !.processingStatus = Undef]
    ELSE IF EditContinues(run, o)
         THEN [st EXCEPT !.processingStatus = Some(StatusEditing(run.i + 1, run.files))]
         ELSE [st EXCEPT !.error = Some(ErrorText(o, MsgUnknownEdit)), !.isLoading = FALSE,
                         !.processingStatus = Undef]

\* editImageWithNanoBanana settles for the image of a run's index and
\* handleEditSubmit runs to its next await or to its end.
EditSettles ==
    /\ \E k \in DOMAIN runs :
          /\ runs[k].kind = "edit"
          /\ \E o \in EditEnds :
                /\ IF runs[k].live
                   THEN /\ studio' = EditAfter(studio, runs[k], o)
                        /\ lastOutcome' = o.kind
                   ELSE UNCHANGED <<studio, lastOutcome>>
                /\ runs' = IF EditContinues(runs[k], o)
                           THEN [runs EXCEPT ![k] = EditRunAfter(runs[k], o)]
                           ELSE RemoveAt(runs, k)
    /\ UNCHANGED <<still, isApiReady, activeTool, videoGen>>

UiNext ==
    \/ CheckServerReadinessReturns
    \/ \E t \in {"IMAGE_STUDIO", "VIDEO_GENERATOR"} : SetActiveTool(t)
    \/ \E p \in Prompts : SetVideoPrompt(p)
    \/ VideoHandleFileChange
    \/ VideoHandleSubmit
    \/ VideoSettles
    \/ \E p \in Prompts : SetStudioPrompt(p)
    \/ \E m \in {"GENERATE", "EDIT"} : HandleModeChange(m)
    \/ \E f \in FileNames : HandleFileChange(f)
    \/ \E i \in 1..MaxFiles : HandleRemoveImage(i)
    \/ ClearAllImages
    \/ HandleEditGeneratedImage
    \/ StudioHandleSubmit
    \/ GenerateSettles
    \/ EditSettles

SpecUI == UiInit /\ [][UiNext]_vars

----------------------------------------------------------------------------
(* Two generateVideoWithVeo invocations at once.  Each invocation has its  *)
(* own locals; the relay handles each request on its own; the remote       *)
(* service keeps one job per accepted submit, under a name of its own.     *)

\* How job n can end: without a video, or with a video under its own URI.
JobShapes(n) ==
    { Undef,
      Some([generatedVideos |-> Some(<<>>)]),
      Some([generatedVideos |-> Some(<<[video |-> Some([uri |-> Some(<<"X", n>>)])]>>)]) }

\* The operation object the remote service reports for job n.
JobOperation(n) ==
    [name |-> Some(n), done |-> jobs[n].done, response |-> jobs[n].response]

\* What the remote service can answer while it keeps several jobs: a
\* submit opens a job under an unused name, a status query reports the job
\* its argument names.
PairOutcomes(endpoint, key, arg) ==
    RemoteErrors(key) \cup
    IF key \notin ValidKeys THEN {}
    ELSE CASE endpoint = "generateVideos" ->
                { Gave(OperationOf(j), j) :
                    j \in { [name |-> n, done |-> FALSE, response |-> Undef] :
                              n \in { m \in JobNames : ~jobs[m].open } } }
           [] endpoint = "getVideosOperation" ->
                LET named == IF IsDef(Get(arg, "operation"))
                             THEN Get(Val(Get(arg, "operation")), "name")
                             ELSE Undef
                IN  IF IsDef(named) /\ Val(named) \in JobNames /\ jobs[Val(named)].open
                    THEN { Gave(JobOperation(Val(named)), NoJob) }
                    ELSE { Threw(Some(<<"operation", "not found">>)) }
           [] OTHER -> {}

\* The request callProxy builds.
PairRequest(endpoint, payload, k) ==
    Request(IF client = "server"
            THEN CallProxyBodyServer(endpoint, payload)
            ELSE CallProxyBodyKeyed(k, endpoint, payload))

\* Mutant: the handle is one variable shared by the invocations.
HeldBy_Shared(i) ==
    IF IsDef(invs[3 - i].operation) THEN invs[3 - i].operation ELSE invs[i].operation

\* `let operation`: the handle is a local of the invocation.
HeldBy(i) == invs[i].operation

PairInit ==
    /\ \E d \in Deployments : client = d[1] /\ relay = d[2]
    /\ envKey \in (IF relay = "env" THEN {Undef, Some(KeyGood)} ELSE {Undef})
    /\ accepted = {KeyGood}
    /\ app = "none"
    /\ storage = Undef
    /\ AppAtRest
    /\ EngineAtRest
    /\ UiAtRest
    /\ PairAtRest
    /\ KeyAtRest

\* What no step of the two invocations changes.
apart == <<engineVars, appVars, uiVars, keyVars>>

\* generateVideoWithVeo is called: the submit is issued.
PairStart(i, k) ==
    /\ invs[i].pc = "idle"
    /\ k \in KeyArgs
    /\ invs' = [invs EXCEPT ![i] =
                  [@ EXCEPT !.pc = "sent", !.apiKey = k,
                            !.req = PairRequest("generateVideos", GenerateParams(FALSE), k)]]
    /\ UNCHANGED <<apart, jobs>>

\* The relay handles the request of invocation i.
PairRelayHandle(i) ==
    /\ invs[i].pc = "sent"
    /\ LET r == invs[i].req
           endpoint == Val(Get(Val(r.json), "endpoint"))
       IN  \E out \in (IF RelayCallsRemote(r)
                       THEN PairOutcomes(endpoint, RelayKey(r), RelayArg(r))
                       ELSE {NoCall}) :
              /\ invs' = [invs EXCEPT ![i] =
                            [@ EXCEPT !.pc = "answered", !.resp = RelayRespond(r, out)]]
              /\ jobs' = IF RelayCallsRemote(r) /\ ~out.threw /\ endpoint = "generateVideos"
                         THEN [jobs EXCEPT ![out.job.name] =
                                 [open |-> TRUE, done |-> FALSE, response |-> Undef, by |-> i]]
                         ELSE jobs
    /\ UNCHANGED apart

\* The fetch of invocation i rejects.
PairNetFail(i) ==
    /\ invs[i].pc = "sent"
    /\ invs' = [invs EXCEPT ![i] = [@ EXCEPT !.pc = "answered", !.resp = NoResp]]
    /\ UNCHANGED <<apart, jobs>>

\* Invocation i resumes after its submit or status query.
PairReceives(i) ==
    /\ invs[i].pc = "answered"
    /\ LET awaited == CallProxy(invs[i].resp, Val(Get(Val(invs[i].req.json), "endpoint")))
       IN  invs' = [invs EXCEPT ![i] =
                IF awaited.kind = "threw"
                THEN [@ EXCEPT !.pc = "done", !.result = awaited]
                ELSE IF LoopContinues(awaited.value)
                THEN [@ EXCEPT !.pc = "waiting", !.operation = Some(awaited.value)]
                ELSE [@ EXCEPT !.pc = "done", !.operation = Some(awaited.value),
                               !.result = VideoResult(awaited.value, invs[i].apiKey)]]
    /\ UNCHANGED <<apart, jobs>>

\* The timer of invocation i fires: the status query is issued.
PairTimerFires(i) ==
    /\ invs[i].pc = "waiting"
    /\ invs' = [invs EXCEPT ![i] =
                  [@ EXCEPT !.pc = "sent",
                            !.req = PairRequest("getVideosOperation",
                                                StatusPayload(Val(HeldBy(i))), invs[i].apiKey)]]
    /\ UNCHANGED <<apart, jobs>>

\* The remote service finishes job n.
PairRemoteFinish(n) ==
    /\ jobs[n].open
    /\ ~jobs[n].done
    /\ \E v \in JobShapes(n) : jobs' = [jobs EXCEPT ![n].done = TRUE, ![n].response = v]
    /\ UNCHANGED <<apart, invs>>

PairNext ==
    \/ \E i \in Callers, k \in {EmptyStr} \cup Keys : PairStart(i, k)
    \/ \E i \in Callers : PairRelayHandle(i)
    \/ \E i \in Callers : PairNetFail(i)
    \/ \E i \in Callers : PairReceives(i)
    \/ \E i \in Callers : PairTimerFires(i)
    \/ \E n \in JobNames : PairRemoteFinish(n)

SpecPair == PairInit /\ [][PairNext]_vars

----------------------------------------------------------------------------
(* Properties of the video polling loop.                                   *)

ReqEndpoint(r) == Val(Get(Val(r.json), "endpoint"))

ReqPayload(r) == Val(Get(Val(r.json), "payload"))

\* The step issues a status query.
IssuesStatusQuery ==
    /\ pc # "sent"
    /\ pc' = "sent"
    /\ ReqEndpoint(req') = "getVideosOperation"

\* The status query r names the handle o.
QueryIdentifies(r, o) ==
    IF client = "server"
    THEN Get(ReqPayload(r), "operationName") = Get(o, "name")
    ELSE Get(ReqPayload(r), "operation") = Some(o)

\* generateVideoWithVeo resumes with a successful relay answer.
ReceivesHandle ==
    /\ pc = "answered"
    /\ op.kind = "video"
    /\ pc' # "answered"
    /\ Awaited.kind = "returned"

C1_Step ==
    /\ IssuesStatusQuery =>
          /\ op.kind = "video"
          /\ pc = "waiting"
          /\ timer = PollDelayMs
          /\ IsDef(handle)
          /\ ~Val(handle).done
          /\ QueryIdentifies(req', Val(handle))
          /\ handle' = handle
    /\ ReceivesHandle =>
          /\ handle' = Some(Val(resp.json))
          /\ IF Val(handle').done
             THEN pc' = "done" /\ timer' = 0
             ELSE pc' = "waiting" /\ timer' = PollDelayMs
    /\ (IsDef(handle) /\ Val(handle).done) => pc = "done"
    /\ (IsDef(handle') /\ Val(handle').done) => pc' = "done"

\* C1: in generateVideo, a status query is issued only when the fixed
\* 10-second timer set after receiving a handle with done=false fires; it
\* names the held handle; the handle is replaced by each successful answer;
\* no status query is issued before the submit answer or after a handle with
\* done=true has been received.
C1_PollingDiscipline == [][C1_Step]_vars

C1_Witness ==
    /\ op.kind = "video"
    /\ pc = "done"
    /\ result.kind = "returned"
    /\ nStatus = 2
    /\ nWaits = 2

\* The scenario of C2: the status queries were answered done=false twice
\* and then done=true with a media URI, and the call has ended.
C2_Scenario ==
    /\ op.kind = "video"
    /\ pc = "done"
    /\ statusLog = <<FALSE, FALSE, TRUE>>
    /\ IsDef(handle)
    /\ StrTruthy(DownloadLink(Val(handle)))

\* C2 (amended): after status answers done=false, done=false, done=true
\* with URI X from the relay, generateVideo has made exactly three status
\* queries and returns X unchanged in the server-held-key client, and X
\* followed by &key=<apiKey> in the client-supplied-key client.
C2_ThreeQueries ==
    C2_Scenario =>
        /\ nStatus = 3
        /\ result = Returned(IF client = "server"
                             THEN Val(DownloadLink(Val(handle)))
                             ELSE WithKey(Val(DownloadLink(Val(handle))), op.apiKey))

C2_Witness == C2_Scenario /\ result.kind = "returned" /\ client = "keyed"

\* C2 as stated: the relay's X is returned as it is, and with the
\* credential appended in server-held-credential mode.
C2_AsStated ==
    C2_Scenario =>
        /\ nStatus = 3
        /\ result = Returned(IF relay = "env"
                             THEN WithKey(Val(DownloadLink(Val(handle))), Val(envKey))
                             ELSE Val(DownloadLink(Val(handle))))

\* C3: a done handle without a media URI makes generateVideo throw the
\* "no download link" error, and a URI that generateVideo returns is never
\* empty.
C3_NoEmptyUri ==
    op.kind = "video" /\ pc = "done" =>
        /\ (IsDef(handle) /\ Val(handle).done /\ ~StrTruthy(DownloadLink(Val(handle))))
              => result = Thrown(MsgNoLink)
        /\ result.kind = "returned" =>
              /\ result.value # EmptyStr
              /\ IsDef(handle)
              /\ StrTruthy(DownloadLink(Val(handle)))

C3_Witness ==
    /\ op.kind = "video"
    /\ pc = "done"
    /\ IsDef(handle)
    /\ Val(handle).done
    /\ DownloadLink(Val(handle)) = Some(EmptyStr)
    /\ result = Thrown(MsgNoLink)

VideoRunning == op.kind = "video" /\ pc \in {"sent", "answered", "waiting"}

VideoEnded == op.kind = "video" /\ pc = "done"

\* The remote job the held handle names reports done.
HeldJobDone ==
    /\ IsDef(handle)
    /\ Get(Val(handle), "name") = Some(job.name)
    /\ job.done

C4_EndsOnlyWhenDone ==
    VideoEnded =>
        /\ failedCall \/ (IsDef(handle) /\ Val(handle).done)
        /\ ~failedCall => (result.kind = "returned" \/ result = Thrown(MsgNoLink))

\* C4: generateVideo ends only on a done handle or a failed relay call (no
\* retry limit, no timeout); once the remote job reports done, the call
\* ends, under fair scheduling of the timer, the fetch and the resumption.
C4_NoLimit ==
    /\ [](C4_EndsOnlyWhenDone)
    /\ ((VideoRunning /\ HeldJobDone) ~> VideoEnded)

\* The loop is still running after the counter of status queries has
\* saturated.
C4_Witness ==
    /\ op.kind = "video"
    /\ pc = "waiting"
    /\ nStatus = MaxCount
    /\ ~job.done

----------------------------------------------------------------------------
(* Properties of the relay calls and of the readiness check.               *)

\* validateApiKey was called with an empty key.
EmptyKeyValidate == op.kind = "readiness" /\ client = "keyed" /\ op.apiKey = EmptyStr

SingleCallKinds == {"readiness", "image", "edit"}

\* C5 (amended): checkReadiness, generateImage and editImage make exactly
\* one relay call per invocation, whether it succeeds or fails, except
\* validateApiKey with an empty key, which makes none; in generateVideo the
\* relay calls are the submit and the status queries, and a failed one ends
\* the invocation with an error.
C5_NoRetry ==
    /\ op.kind \in SingleCallKinds =>
          /\ nRelayCalls <= 1
          /\ pc = "done" => nRelayCalls = (IF EmptyKeyValidate THEN 0 ELSE 1)
    /\ op.kind = "video" =>
          /\ nRelayCalls = (IF nStatus + 1 < MaxCount THEN nStatus + 1 ELSE MaxCount)
          /\ failedCall => (pc = "done" /\ result.kind = "threw")

C5_Witness ==
    /\ op.kind = "video"
    /\ failedCall
    /\ nStatus = 1
    /\ nRelayCalls = 2
    /\ pc = "done"

\* C5 as stated: every invocation of the three single-call operations
\* makes exactly one relay call.
C5_AsStated ==
    (op.kind \in SingleCallKinds /\ pc = "done") => nRelayCalls = 1

\* The credential the remote service sees in this deployment.
CredentialUsed ==
    IF relay = "env" THEN envKey
    ELSE IF client = "keyed" THEN Some(op.apiKey) ELSE Undef

\* The validate call completed without error: the fetch was answered with
\* a 2xx status and a JSON body.
ValidateCallSucceeded ==
    /\ nRelayCalls = 1
    /\ resp.delivered
    /\ IsDef(resp.json)
    /\ Ok(resp)

\* C6: checkApiReadiness / validateApiKey never throws; it returns true
\* exactly when the validate call completed without error, and false for a
\* missing or rejected credential.
C6_Readiness ==
    (op.kind = "readiness" /\ pc = "done") =>
        /\ result.kind = "returned"
        /\ result.value \in BOOLEAN
        /\ result.value = ValidateCallSucceeded
        /\ (~StrTruthy(CredentialUsed) \/ Val(CredentialUsed) \notin ValidKeys)
              => result.value = FALSE

C6_Witness ==
    /\ op.kind = "readiness"
    /\ pc = "done"
    /\ result = ReturnedBoolean(TRUE)
    /\ resp.status = 200

\* Every answer the remote service could give to the relay's call.
AnyOutcome(r) ==
    UNION { RemoteOutcomes(ReqEndpoint(r), k, RelayArg(r)) : k \in Keys }

\* The one answer that leaves the relay with the credential in it.
DoneStatusWithUri(r, out) ==
    /\ ReqEndpoint(r) = "getVideosOperation"
    /\ ~out.threw
    /\ out.value.done
    /\ StrTruthy(DownloadLink(out.value))

----------------------------------------------------------------------------
(* Properties of the persisted and cached credential.                      *)

\* handleApiKeySubmit has just run to its end after a validation.
Validated == lastEvent.kind = "validated"

\* C7 as stated: the stored credential is written when a submitted
\* credential validates, and is absent after a failed validation (the one
\* at startup included) and after an empty submission.
C7_AsStated ==
    /\ (Validated /\ lastEvent.valid) => storage = Some(lastEvent.key)
    /\ (Validated /\ ~lastEvent.valid) => storage = Undef
    /\ lastEvent.kind = "cleared" => storage = Undef

ToolRejected == lastEvent.kind = "tool" /\ lastEvent.cause = "rejected"

\* The remote service has just rejected the credential of a validation.
ValidationRejected == Validated /\ lastEvent.cause = "rejected"

\* C9 (amended): a credential rejected during an image edit is surfaced as
\* the error message (the invalid-credential message in the snapshot with
\* handleApiError, the remote service's own message otherwise) and leaves
\* the in-memory and the persisted credential as they were; a credential
\* rejected during validation sets isKeyValid to false, removes the
\* persisted credential (except at startup in the isInitialLoad snapshot)
\* and clears the in-memory credential in the trimming snapshot only.
C9_Rejection ==
    /\ ToolRejected =>
          /\ tool.error = Some(IF client = "sdkErr" THEN MsgInvalidKey ELSE MsgAuth)
          /\ <<apiKeyS, storage>> = lastEvent.before
    /\ ValidationRejected =>
          /\ isKeyValid = "false"
          /\ storage = (IF app = "A2" /\ lastEvent.initial
                        THEN lastEvent.before[2] ELSE Undef)
          /\ apiKeyS = (IF app = "A3" THEN EmptyStr ELSE lastEvent.before[1])

\* An image edit was rejected in the snapshot with handleApiError while a
\* credential is stored and held in memory.
C9_Witness ==
    /\ ToolRejected
    /\ client = "sdkErr"
    /\ tool.error = Some(MsgInvalidKey)
    /\ storage # Undef
    /\ apiKeyS # EmptyStr

\* C9 as stated: a rejection is surfaced as an invalid-credential message
\* and clears the in-memory and the persisted credential.
C9_AsStated ==
    /\ ToolRejected =>
          /\ tool.error \in {Some(MsgInvalidKey), Some(MsgAuth)}
          /\ apiKeyS = EmptyStr
          /\ storage = Undef
    /\ ValidationRejected =>
          /\ apiKeyS = EmptyStr
          /\ storage = Undef

----------------------------------------------------------------------------
(* Properties of the relay.                                                *)

\* generateVideo has returned a URI that it received from a status query
\* in server-held-credential mode.
C11_Scenario ==
    /\ relay = "env"
    /\ op.kind = "video"
    /\ pc = "done"
    /\ result.kind = "returned"
    /\ nStatus >= 1

Answered == pc = "answered"

\* The request is a POST whose body parsed.
ParsedPost == req.method = "POST" /\ IsDef(req.json)

\* The parsed body lacks endpoint or payload, or names no known endpoint.
Malformed ==
    \/ ~TokTruthy(Get(Val(req.json), "endpoint"))
    \/ ~IsDef(Get(Val(req.json), "payload"))
    \/ Val(Get(Val(req.json), "endpoint")) \notin Endpoints

\* The response is an error response with the given status.
Rejected(status) ==
    /\ resp.delivered
    /\ resp.status = status
    /\ IsDef(resp.json)
    /\ StrTruthy(Get(Val(resp.json), "error"))

\* C12: a POST whose body lacks endpoint or payload, or whose endpoint is
\* not one of the five known ones, is answered 400 with an error body, and
\* the relay makes no remote call for it.
C12_BadRequest ==
    (Answered /\ ParsedPost /\ Malformed) =>
        /\ Rejected(400)
        /\ ~remoteCall.made

C12_Witness ==
    /\ Answered
    /\ relay = "src"
    /\ ParsedPost
    /\ Get(Val(req.json), "apiKey") = Some(KeyGood)
    /\ Get(Val(req.json), "endpoint") = Some("unknown")
    /\ IsDef(Get(Val(req.json), "payload"))
    /\ resp = Response(400, [error |-> Some(MsgUnknownEndpoint("unknown"))])

\* C13: every request whose verb is not POST is answered 405 with the
\* same error body whatever its body holds, and the relay makes no remote
\* call for it.
C13_MethodNotAllowed ==
    (Answered /\ req.method # "POST") =>
        /\ resp = Response(405, [error |-> Some(MsgMethodNotAllowed)])
        /\ ~remoteCall.made

\* A GET whose body would pass every other check.
C13_Witness ==
    /\ Answered
    /\ relay = "src"
    /\ req.method = "GET"
    /\ IsDef(req.json)
    /\ Get(Val(req.json), "apiKey") = Some(KeyGood)
    /\ Get(Val(req.json), "endpoint") = Some("validate")
    /\ IsDef(Get(Val(req.json), "payload"))
    /\ resp.status = 405

RemoteThrew == Answered /\ remoteCall.made /\ remoteCall.out.threw

\* C15: when the relay's remote call throws, the response is 500 with body
\* {error: message}, the message being the remote service's own when it has
\* one and the generic fallback otherwise; every request the handler takes
\* gets a response.
C15_RemoteFailure ==
    /\ RemoteThrew =>
          resp = Response(500, [error |-> Some(IF StrTruthy(remoteCall.out.message)
                                               THEN Val(remoteCall.out.message)
                                               ELSE MsgInternal)])
    /\ Answered =>
          /\ resp.delivered
          /\ IsDef(resp.json)
          /\ resp.status \in {200, 400, 405, 500}

\* The remote service rejected the key with its own message.
C15_Witness ==
    /\ RemoteThrew
    /\ relay = "src"
    /\ remoteCall.out.message = Some(MsgAuth)
    /\ resp.status = 500
    /\ Get(Val(resp.json), "error") = Some(MsgAuth)

\* The request lacks a required field of its deployment mode, names no
\* known endpoint, or has a body that does not parse.
BadRequest ==
    \/ ~IsDef(req.json)
    \/ Malformed
    \/ relay = "src" /\ ~StrTruthy(Get(Val(req.json), "apiKey"))
    \/ /\ relay = "env"
       /\ StrTruthy(envKey)
       /\ Val(Get(Val(req.json), "endpoint")) = "getVideosOperation"
       /\ ~IsDef(Get(Val(Get(Val(req.json), "payload")), "operationName"))

\* C16 as stated: 200 only for a well-formed request whose remote call
\* succeeded, 400 for every malformed POST (a body that cannot be parsed
\* included), 405 for every non-POST, and 500 only for a missing server
\* credential or a failed remote call.
C16_AsStated ==
    Answered =>
        /\ resp.status = 200 =>
              (req.method = "POST" /\ ~BadRequest /\ remoteCall.made /\ ~remoteCall.out.threw)
        /\ (req.method = "POST" /\ BadRequest) => resp.status = 400
        /\ req.method # "POST" => resp.status = 405
        /\ resp.status = 500 =>
              \/ relay = "env" /\ ~StrTruthy(envKey)
              \/ remoteCall.made /\ remoteCall.out.threw

\* The same partition, for requests whose body parses.
C16_ParsedBodies == IsDef(req.json) => C16_AsStated

\* The relay has answered a POST for getVideosOperation that passed the
\* checks on credential, endpoint and payload.
StatusQueryHandled ==
    /\ Answered
    /\ ParsedPost
    /\ ~Malformed
    /\ Val(Get(Val(req.json), "endpoint")) = "getVideosOperation"
    /\ IF relay = "src" THEN StrTruthy(Get(Val(req.json), "apiKey")) ELSE StrTruthy(envKey)

\* payload.operationName of the request in req.
OperationNameField == Get(Val(Get(Val(req.json), "payload")), "operationName")

\* The status query built from a name.
QueryFor(name) == [operation |-> Some([name |-> name])]

C17_WitnessForwarded ==
    /\ StatusQueryHandled
    /\ relay = "src"
    /\ ~IsDef(OperationNameField)
    /\ remoteCall.made
    /\ remoteCall.endpoint = "getVideosOperation"

Forwardable ==
    /\ Answered
    /\ ParsedPost
    /\ ~Malformed
    /\ IF relay = "src" THEN StrTruthy(Get(Val(req.json), "apiKey")) ELSE StrTruthy(envKey)

\* The endpoints whose payload is the argument of the remote call.
ForwardingEndpoints == {"generateImages", "generateContent", "generateVideos"}

\* C18: for generateImages, generateContent and generateVideos the relay
\* calls the capability of that name with the request's payload unchanged
\* and, when the call succeeds, answers 200 with the capability's response
\* as it came; for validate it makes one call with the fixed minimal probe,
\* whatever the payload, and answers 200 with {success: true, text}.
C18_Forwarding ==
    LET endpoint == Val(Get(Val(req.json), "endpoint"))
        payload  == Val(Get(Val(req.json), "payload"))
    IN  (Forwardable /\ endpoint \in ForwardingEndpoints \cup {"validate"}) =>
            /\ remoteCall.made
            /\ remoteCall.endpoint = endpoint
            /\ remoteCall.arg = IF endpoint = "validate" THEN ProbeRequest ELSE payload
            /\ ~remoteCall.out.threw =>
                  resp = Response(200, IF endpoint = "validate"
                                       THEN [success |-> TRUE, text |-> remoteCall.out.value.text]
                                       ELSE remoteCall.out.value)

\* A generateContent request has been forwarded and answered.
C18_Witness ==
    /\ Forwardable
    /\ relay = "src"
    /\ Get(Val(req.json), "endpoint") = Some("generateContent")
    /\ Get(Val(req.json), "payload") = Some(GenerateParams(FALSE))
    /\ remoteCall.arg = GenerateParams(FALSE)
    /\ ~remoteCall.out.threw
    /\ resp.status = 200
    /\ Val(resp.json) = remoteCall.out.value

\* A validate request has been answered after the probe.
C18_WitnessProbe ==
    /\ Forwardable
    /\ relay = "src"
    /\ Get(Val(req.json), "endpoint") = Some("validate")
    /\ remoteCall.arg = ProbeRequest
    /\ resp = Response(200, [success |-> TRUE, text |-> Some(<<"Hello">>)])

----------------------------------------------------------------------------
(* Properties of editImage.                                                *)

\* The parts of the first candidate of the remote service's answer to the
\* relay's generateContent call.
EmittedParts ==
    LET c == Get(remoteCall.out.value, "candidates")
    IN  IF IsDef(c) /\ Len(Val(c)) > 0 THEN Val(c)[1].content.parts ELSE <<>>

\* editImage has settled after a remote call that succeeded.
EditSettled ==
    /\ op.kind = "edit"
    /\ pc = "done"
    /\ remoteCall.made
    /\ remoteCall.endpoint = "generateContent"
    /\ ~remoteCall.out.threw

\* A part that carries text, or no text and inline image data.
IsTextPart(part) == StrTruthy(part.text)

IsImagePart(part) == ~StrTruthy(part.text) /\ IsDef(part.inlineData)

\* The data URI of an image part.
DataUri(part) ==
    <<"data:", Val(part.inlineData).mimeType, ";base64,", Val(part.inlineData).data>>

\* C19: when every part of the response is a text part or an image part,
\* editImage returns as many parts as the response holds, and the i-th
\* returned part is Text with the i-th part's text or Image with the data
\* URI of the i-th part's mime type and bytes.
C19_OrderPreserved ==
    (/\ EditSettled
     /\ EmittedParts # <<>>
     /\ \A i \in DOMAIN EmittedParts :
            IsTextPart(EmittedParts[i]) \/ IsImagePart(EmittedParts[i])) =>
        /\ result.kind = "returned"
        /\ Len(result.value) = Len(EmittedParts)
        /\ \A i \in DOMAIN EmittedParts :
              result.value[i] =
                  IF IsTextPart(EmittedParts[i])
                  THEN [type |-> "text", content |-> Val(EmittedParts[i].text)]
                  ELSE [type |-> "image", content |-> DataUri(EmittedParts[i])]

\* Text, image, text, image has come back in that order.
C19_Witness ==
    /\ EditSettled
    /\ Len(EmittedParts) = 4
    /\ result.kind = "returned"
    /\ result.value = << [type |-> "text", content |-> <<"t1">>],
                         [type |-> "image", content |-> <<"data:", "image/png", ";base64,", "d1">>],
                         [type |-> "text", content |-> <<"t2">>],
                         [type |-> "image", content |-> <<"data:", "image/jpeg", ";base64,", "d2">>] >>

\* C20: editImage never returns an empty sequence, and when the remote
\* call succeeded but the response has no candidates, an empty parts list,
\* or only parts with neither text nor inline image data, it fails with the
\* message that the model returned no content.
C20_EmptyResult ==
    /\ (op.kind = "edit" /\ pc = "done" /\ result.kind = "returned") =>
          Len(result.value) > 0
    /\ (/\ EditSettled
        /\ \A i \in DOMAIN EmittedParts :
               ~IsTextPart(EmittedParts[i]) /\ ~IsImagePart(EmittedParts[i])) =>
          result = Thrown(MsgNoContent)

\* A response whose parts carry neither text nor image data has been
\* turned into the failure.
C20_Witness ==
    /\ EditSettled
    /\ Len(EmittedParts) = 2
    /\ \A i \in DOMAIN EmittedParts :
           ~IsDef(EmittedParts[i].text) /\ ~IsDef(EmittedParts[i].inlineData)
    /\ result = Thrown(MsgNoContent)

\* A response without candidates has been turned into the failure.
C20_WitnessNoCandidates ==
    /\ EditSettled
    /\ ~IsDef(Get(remoteCall.out.value, "candidates"))
    /\ result = Thrown(MsgNoContent)

----------------------------------------------------------------------------
(* Properties of generateImage.                                            *)

\* The image list of the remote service's answer to generateImages.
EmittedImages == Get(remoteCall.out.value, "generatedImages")

\* generateImage has settled after a remote call that succeeded.
ImageSettled ==
    /\ op.kind = "image"
    /\ pc = "done"
    /\ remoteCall.made
    /\ remoteCall.endpoint = "generateImages"
    /\ ~remoteCall.out.threw

\* C21: generateImage fails with the no-images message when the response's
\* image list is missing or empty; on a response with one image it returns
\* exactly one data URI, data:image/png;base64,<bytes>, with that image's
\* bytes and the mime type the request asked for, whatever mime type the
\* response's image carries.
C21_ImageResult ==
    ImageSettled =>
        IF ~IsDef(EmittedImages) \/ Len(Val(EmittedImages)) = 0
        THEN result = Thrown(MsgNoImages)
        ELSE /\ result.kind = "returned"
             /\ Len(result.value) = Len(Val(EmittedImages))
             /\ \A i \in DOMAIN Val(EmittedImages) :
                   result.value[i] =
                       <<"data:", "image/png", ";base64,", Val(EmittedImages)[i].image.imageBytes>>

\* One PNG image has come back as one data URI.
C21_Witness ==
    /\ ImageSettled
    /\ IsDef(EmittedImages)
    /\ Val(EmittedImages) = <<[image |-> [imageBytes |-> "b1", mimeType |-> "image/png"]]>>
    /\ result = Returned(<< <<"data:", "image/png", ";base64,", "b1">> >>)

\* An empty image list has been turned into the failure.
C21_WitnessEmpty ==
    /\ ImageSettled
    /\ EmittedImages = Some(<<>>)
    /\ result = Thrown(MsgNoImages)

\* C21 as stated: the data URI carries the mime type of the response's
\* image.
C21_AsStated ==
    ImageSettled =>
        IF ~IsDef(EmittedImages) \/ Len(Val(EmittedImages)) = 0
        THEN result = Thrown(MsgNoImages)
        ELSE /\ result.kind = "returned"
             /\ Len(result.value) = Len(Val(EmittedImages))
             /\ \A i \in DOMAIN Val(EmittedImages) :
                   result.value[i] =
                       <<"data:", Val(EmittedImages)[i].image.mimeType, ";base64,",
                         Val(EmittedImages)[i].image.imageBytes>>

----------------------------------------------------------------------------
(* Properties of the video job handle.                                     *)

\* generateVideo holds a handle whose done flag is set.
HeldDone == op.kind = "video" /\ IsDef(handle) /\ Val(handle).done

\* A step that changes the held handle: a new call drops it, and within a
\* call it becomes the body of the response just received, which is the
\* answer to the submit when none was held and the answer to a status query
\* when one was held, and that one was not done.
C22_HandleStep ==
    handle' # handle =>
        \/ pc \in {"idle", "done"} /\ handle' = Undef
        \/ /\ pc = "answered"
           /\ op.kind = "video"
           /\ op' = op
           /\ resp.status = 200
           /\ handle' = resp.json
           /\ Val(Get(Val(req.json), "endpoint")) =
                  IF IsDef(handle) THEN "getVideosOperation" ELSE "generateVideos"
           /\ IsDef(handle) => ~Val(handle).done

\* C22: within one generateVideo call the held handle changes only by being
\* replaced with the response to a status query (after the submit's answer
\* created it); a handle with done set is held only once the call has
\* ended, so it is never replaced, and a URI that the call returns begins
\* with the URI of that handle.
C22_HandleMonotonic ==
    /\ [][C22_HandleStep]_vars
    /\ [](HeldDone =>
            /\ pc = "done"
            /\ result.kind \in {"returned", "threw"}
            /\ result.kind = "returned" =>
                  /\ StrTruthy(DownloadLink(Val(handle)))
                  /\ Len(result.value) >= Len(Val(DownloadLink(Val(handle))))
                  /\ SubSeq(result.value, 1, Len(Val(DownloadLink(Val(handle)))))
                        = Val(DownloadLink(Val(handle))))

\* A call has ended on the done handle that its second status query
\* brought.
C22_Witness ==
    /\ HeldDone
    /\ pc = "done"
    /\ statusLog = <<FALSE, TRUE>>
    /\ result.kind = "returned"

----------------------------------------------------------------------------
(* Properties of the page's tool components.                               *)

\* The state of the component that owns a run, in the step's new state.
OwnerAfter(run) == IF run.owner = "video" THEN videoGen' ELSE studio'

\* A step in which the call of a mounted component's run fails and the run
\* ends: the component shows a message, its in-progress flag is off and
\* none of its runs is left.
C23_FailureStep ==
    \A k \in DOMAIN runs :
        (/\ runs[k].live
         /\ runs[k].owner # "app"
         /\ runs' = RemoveAt(runs, k)
         /\ lastOutcome' = "threw") =>
            /\ ~OwnerAfter(runs[k]).isLoading
            /\ StrTruthy(OwnerAfter(runs[k]).error)
            /\ \A j \in DOMAIN runs' : ~(runs'[j].live /\ runs'[j].owner = runs[k].owner)

\* A step in which a handler starts a run: the run is a fresh one, the
\* message of an earlier failure is gone and the earlier results are
\* cleared, whatever happened before.
C23_SubmitStep ==
    Len(runs') = Len(runs) + 1 =>
        LET new == runs'[Len(runs')]
        IN  /\ new.live
            /\ new.newResults = <<>>
            /\ OwnerAfter(new).isLoading
            /\ OwnerAfter(new).error = Undef
            /\ new.kind = "video" => (new.i = 0 /\ videoGen'.resultUri = Undef)
            /\ new.kind = "generate" => (new.i = 0 /\ studio'.generatedImages = <<>>)
            /\ new.kind = "edit" =>
                  (new.i = 1 /\ new.files = studio.imageFiles /\ studio'.editResults = <<>>)

C23_WitnessStudio ==
    /\ Rendered("IMAGE_STUDIO")
    /\ lastOutcome = "threw"
    /\ studio.isLoading
    /\ studio.error = Undef
    /\ \E k \in DOMAIN runs : runs[k].live /\ runs[k].kind = "edit"

----------------------------------------------------------------------------
(* Properties of invocations run at once.                                  *)

\* The jobs that the submit of invocation i opened.
OwnJobs(i) == { n \in JobNames : jobs[n].open /\ jobs[n].by = i }

\* The job name a status query carries, in either client's shape.
QueriedName(r) ==
    LET payload == Val(Get(Val(r.json), "payload"))
    IN  IF client = "server" THEN Get(payload, "operationName")
        ELSE Get(Val(Get(payload, "operation")), "name")

IsStatusQuery(r) ==
    r.method = "POST" /\ Val(Get(Val(r.json), "endpoint")) = "getVideosOperation"

\* A step of one invocation leaves the other invocation's locals and the
\* other invocation's job as they were.
C24_Step ==
    \A i \in Callers :
        invs'[i] # invs[i] =>
            /\ invs'[3 - i] = invs[3 - i]
            /\ \A n \in OwnJobs(3 - i) : jobs'[n] = jobs[n]

\* What each invocation holds, asks for and ends with is its own job's.
C24_Own ==
    \A i \in Callers :
        /\ IsDef(invs[i].operation) =>
              /\ IsDef(Val(invs[i].operation).name)
              /\ Val(Val(invs[i].operation).name) \in OwnJobs(i)
        /\ IsStatusQuery(invs[i].req) =>
              /\ IsDef(QueriedName(invs[i].req))
              /\ Val(QueriedName(invs[i].req)) \in OwnJobs(i)
        /\ invs[i].pc = "done" /\ invs[i].result.kind = "returned" =>
              \E n \in OwnJobs(i) :
                 /\ jobs[n].done
                 /\ StrTruthy(DownloadLink(JobOperation(n)))
                 /\ SubSeq(invs[i].result.value, 1, 2) = Val(DownloadLink(JobOperation(n)))
        /\ invs[i].pc = "done" /\ invs[i].result.kind = "threw" =>
              \/ /\ invs[i].result.message = MsgNoLink
                 /\ \E n \in OwnJobs(i) :
                       jobs[n].done /\ ~StrTruthy(DownloadLink(JobOperation(n)))
              \/ invs[i].result =
                    CallProxy(invs[i].resp, Val(Get(Val(invs[i].req.json), "endpoint")))

\* C24: invocations of generateVideo run at once do not interfere: each
\* polls only with the handle its own submit returned, a step of one
\* leaves the other's locals and job untouched, and each ends with the
\* link of its own job or with the failure of one of its own calls,
\* whatever the interleaving.
C24_NoInterference == [][C24_Step]_vars /\ []C24_Own

\* Witness of C24: the two invocations overlapped, each polling its own
\* job, and the first has returned its own job's link while the second
\* still waits.
C24_Witness ==
    /\ invs[1].pc = "done"
    /\ invs[1].result.kind = "returned"
    /\ invs[2].pc = "waiting"
    /\ IsDef(invs[2].operation)
    /\ Val(invs[1].operation).name # Val(invs[2].operation).name
    /\ IsStatusQuery(invs[1].req)
    /\ IsStatusQuery(invs[2].req)

\* Witness of C24: one invocation failed while the other went on and
\* returned.
C24_WitnessFailure ==
    /\ invs[1].pc = "done"
    /\ invs[1].result.kind = "threw"
    /\ invs[2].pc = "done"
    /\ invs[2].result.kind = "returned"
    /\ IsStatusQuery(invs[2].req)

----------------------------------------------------------------------------
(* Properties of the cached credential.                                    *)

\* The events that handleApiKeySubmit and the page load leave behind.
CredentialEvents == {"loaded", "cleared", "submitted", "validated"}

C25_Step ==
    /\ ToolStart \/ ToolEnds => UNCHANGED <<apiKeyS, storage, isKeyValid>>
    /\ apiKeyS' # apiKeyS \/ storage' # storage => lastEvent'.kind \in CredentialEvents

\* C25: the in-memory key and the persisted key change only in a step of
\* handleApiKeySubmit (called by the key form, its debounce timer or the
\* page load); a generation call and its failure leave both unchanged.
C25_CredentialFrame == [][C25_Step]_vars

\* Witness of C25: an edit made with the stored key was rejected by the
\* remote service, and the key is still held and still persisted.
C25_Witness ==
    /\ lastEvent.kind = "tool"
    /\ lastEvent.cause = "rejected"
    /\ ~tool.busy
    /\ StrTruthy(tool.error)
    /\ apiKeyS = tool.key
    /\ storage = Some(tool.key)
    /\ isKeyValid = "true"

----------------------------------------------------------------------------
(* Properties of overlapping credential submissions.                       *)

\* Every validation has returned.
ValidationsSettled == mounted /\ pending = {} /\ lastEvent.kind = "validated"

\* C26: as stated, once every validation of overlapping submissions has
\* returned, isKeyValid describes the key held in apiKey, and a key marked
\* valid is the persisted one.  The validation that returns last decides
\* isKeyValid and the persisted key, whichever key it was started for.
C26_AsStated ==
    ValidationsSettled /\ isKeyValid = "true" =>
        /\ storage = Some(apiKeyS)
        /\ lastEvent.key = apiKeyS

\* Without an overlap the three agree: when the validation that returned
\* last was the one of the key now held, a key marked valid is persisted.
C26_LastIsHeld ==
    ValidationsSettled /\ isKeyValid = "true" /\ lastEvent.key = apiKeyS =>
        storage = Some(apiKeyS)

----------------------------------------------------------------------------
(* Properties of the debounced validation.                                 *)

\* C27: as stated, after the user's last change of the text field or
\* submission of the form the debounce starts at most one validation.
C27_AsStated == nDebounced <= 1

\* With a callback that never changes and apiKey set to the submitted key
\* before the validation, the debounce starts at most one validation.
C27_Memoised == app # "A3" => nDebounced <= 1

----------------------------------------------------------------------------
(* Properties of the gating of generation calls.                           *)

\* The calls in flight that the mounted component of this kind started.
LiveRuns(owner) == { k \in DOMAIN runs : runs[k].owner = owner /\ runs[k].live }

\* A step that starts a call is taken by the rendered tool component, with
\* readiness true and no call of that component in flight.
C28_StartStep ==
    Len(runs') > Len(runs) =>
        /\ isApiReady = "true"
        /\ LiveRuns(OwnerOf(activeTool)) = {}
        /\ runs'[Len(runs')].owner = OwnerOf(activeTool)
        /\ runs'[Len(runs')].live

C28_State ==
    /\ Cardinality(LiveRuns("video")) <= 1
    /\ Cardinality(LiveRuns("studio")) <= 1
    /\ videoGen.isLoading <=> LiveRuns("video") # {}
    /\ studio.isLoading <=> LiveRuns("studio") # {}
    /\ activeTool # "VIDEO_GENERATOR" => LiveRuns("video") = {}
    /\ activeTool # "IMAGE_STUDIO" => LiveRuns("studio") = {}
    /\ isApiReady # "true" => \A k \in DOMAIN runs : runs[k].kind = "readiness"

\* C28: generation calls are gated by the page: a tool component is
\* rendered only while readiness is true, its submit control is disabled
\* while its isLoading flag is set, so a VideoGenerator has at most one
\* generateVideo call in flight and an ImageStudio at most one generate or
\* batch-edit run, and no call is started while readiness is false or
\* unknown.
C28_Gated == [][C28_StartStep]_vars /\ []C28_State

\* Witness of C28: the rendered VideoGenerator has its one call in flight
\* and its submit control disabled, while a call of an earlier, unmounted
\* VideoGenerator has not yet settled.
C28_Witness ==
    /\ Rendered("VIDEO_GENERATOR")
    /\ videoGen.isLoading
    /\ VideoSubmitDisabled(videoGen)
    /\ videoGen.prompt # EmptyStr
    /\ Cardinality(LiveRuns("video")) = 1
    /\ \E k \in DOMAIN runs : runs[k].owner = "video" /\ ~runs[k].live

\* Witness of C28: the rendered ImageStudio has a batch edit in flight and
\* its submit control disabled.
C28_WitnessStudio ==
    /\ Rendered("IMAGE_STUDIO")
    /\ studio.isLoading
    /\ IsSubmitDisabled(studio)
    /\ studio.prompt # EmptyStr
    /\ \E k \in LiveRuns("studio") : runs[k].kind = "edit"

----------------------------------------------------------------------------
(* Properties of the batch edit.                                           *)

\* The batch edits of the mounted ImageStudio that are in progress.
LiveEdits == { runs[k] : k \in { j \in LiveRuns("studio") : runs[j].kind = "edit" } }

\* results holds, in order, one entry for each of the first Len(results)
\* images of files.
ResultsOfPrefix(results, files) ==
    /\ Len(results) <= Len(files)
    /\ \A j \in DOMAIN results :
          /\ results[j].originalName = files[j]
          /\ results[j].originalPreview = Preview(files[j])
          /\ results[j].editedParts = MapParts(PageParts)

\* The run r with the result of its current image added.
WithResult(r) ==
    Append(r.newResults,
           [originalPreview |-> Preview(r.files[r.i]), originalName |-> r.files[r.i],
            editedParts |-> MapParts(PageParts)])

\* The step in which the call for the current image of a batch settles:
\* the batch goes on to the next image, ends after the last one, or stops
\* at the failure.
C29_Step ==
    \A r \in LiveEdits :
        r \notin LiveEdits' /\ activeTool' = activeTool =>
            \/ /\ lastOutcome' = "returned"
               /\ r.i < Len(r.files)
               /\ LiveEdits' = { [r EXCEPT !.i = r.i + 1, !.newResults = WithResult(r)] }
               /\ studio'.editResults = WithResult(r)
               /\ studio'.isLoading
            \/ /\ lastOutcome' = "returned"
               /\ r.i = Len(r.files)
               /\ LiveEdits' = {}
               /\ studio'.editResults = WithResult(r)
               /\ ~studio'.isLoading
            \/ /\ lastOutcome' = "threw"
               /\ LiveEdits' = {}
               /\ studio'.editResults = studio.editResults
               /\ StrTruthy(studio'.error)
               /\ ~studio'.isLoading
               /\ Len(runs') = Len(runs) - 1

\* While a batch is in progress it waits for the call of exactly one
\* image, the results of the images before it are collected in order, and
\* what is displayed is those results (or nothing, after the user changed
\* the selection or the mode in between).
C29_State ==
    /\ \A r \in LiveEdits :
          /\ r.i \in DOMAIN r.files
          /\ Len(r.newResults) = r.i - 1
          /\ ResultsOfPrefix(r.newResults, r.files)
          /\ studio.editResults \in {<<>>, r.newResults}
          /\ studio.isLoading
          /\ studio.processingStatus = Some(StatusEditing(r.i, r.files))
    /\ \A j \in DOMAIN studio.editResults :
          studio.editResults[j].editedParts = MapParts(PageParts)

\* C29: a batch edit takes the images selected at its submission one after
\* another in list order, one editImage call per image, the next call only
\* after the previous one returned; the displayed results are always those
\* of a prefix of that list, in order; when the call for an image fails the
\* batch stops, the displayed results stay, no later image is called for
\* and the error message is shown.
C29_Batch == [][C29_Step]_vars /\ []C29_State

\* Witness of C29: in a batch of two images the first was edited and the
\* call for the second failed; the first result is displayed with the error.
C29_Witness ==
    /\ Rendered("IMAGE_STUDIO")
    /\ lastOutcome = "threw"
    /\ LiveEdits = {}
    /\ Len(studio.imageFiles) = 2
    /\ Len(studio.editResults) = 1
    /\ studio.editResults[1].originalName = studio.imageFiles[1]
    /\ StrTruthy(studio.error)
    /\ ~studio.isLoading

\* Witness of C29: a batch of two images has displayed both results, in
\* list order.
C29_WitnessComplete ==
    /\ Rendered("IMAGE_STUDIO")
    /\ lastOutcome = "returned"
    /\ LiveEdits = {}
    /\ Len(studio.editResults) = 2
    /\ studio.imageFiles = <<"a.png", "b.png">>
    /\ studio.editResults[1].originalName = "a.png"
    /\ studio.editResults[2].originalName = "b.png"

----------------------------------------------------------------------------
(* Properties of the src relay with requests that carry no credential.     *)

\* The src relay has answered a POST.
SrcAnsweredPost == relay = "src" /\ Answered /\ req.method = "POST"

\* The request carries no non-empty apiKey.
NoApiKey == ~IsDef(req.json) \/ ~StrTruthy(Get(Val(req.json), "apiKey"))

\* checkApiReadiness of the server-held-key client, given this response to
\* its validate request.
ReadinessGiven(rsp) == ReadinessResult(CallProxyServer(rsp))

C30_EndToEnd ==
    client = "server" /\ relay = "src" /\ pc = "done" /\ op.kind = "readiness" =>
        result.kind = "returned" /\ result.value = FALSE /\ ~remoteCall.made

====
